---------------------------- MODULE Spec2Model ----------------------------
(***************************************************************************)
(* A model of the adsb.sbs package: the SBS line protocol (frame decoder), *)
(* the Client that dispatches decoded lines, the Session that aggregates   *)
(* messages into Aircraft records, and the Aircraft record itself.         *)
(*                                                                         *)
(* Conventions.  A byte stream is a sequence of atoms; the atoms CR and LF *)
(* are the two bytes of the delimiter, "xFF" is a byte that is not valid   *)
(* UTF-8, every other atom is a run of ordinary ASCII text (in the message *)
(* specifications one atom is one comma-separated field of a line).        *)
(* Python's None is the empty tuple <<>> and a value v that may be None is *)
(* held as <<v>>, so that values of different kinds are never compared.    *)
(***************************************************************************)
EXTENDS Integers, Sequences, FiniteSets, TLC

VARIABLES
    pconn,          \* SBSProtocol: "none" (no protocol object), "created", "connected" after connection_made, "lost" after connection_lost
    buf,            \* SBSProtocol.buf: Some(the accumulated bytes), None once the connection is lost
    rx,             \* history: every byte passed to data_received, in order
    cb_lines,       \* history: the lines handed to SBSProtocol.on_message_received
    escaped,        \* history: an exception has left data_received
    cfg,            \* Client: which callbacks are registered (_on_raw_message_received, _on_message_received)
    archiving_enabled, \* Client.archiving_enabled
    archived,       \* history: the records passed to Client.logfile.emit
    raw_calls,      \* history: the arguments of the raw-message callback
    msg_calls,      \* history: the arguments of the parsed-message callback
    wire,           \* bytes written by the server and not yet read by the client
    sent,           \* history: the lines the server has written
    aircraft,       \* Session.aircraft: hex_ident -> Aircraft
    now,            \* the wall clock (datetime.now), in seconds
    s_archiving,    \* Session.archiving_enabled
    s_archived,     \* history: the records passed to Session.logfile.emit
    ac,             \* a stand-alone Aircraft object
    accepted,       \* history: the samples ac.history.append was called with
    split_delim,    \* history: a chunk ended with the CR of a delimiter and the next began with its LF
    last,           \* history: the last operation and its arguments
    client,         \* the Client object: its constructor arguments, logfile, protocol and the call in progress
    session,        \* the Session object: its constructor arguments, logfile, monitor task and the call in progress
    cache_file,     \* the session cache file on disk: None, or Some(the pickled aircraft map)
    opened,         \* history: the set of files a RotatingArchiveFileHandler was constructed on
    outcome,        \* history: how the last call of the Client's or Session's interface ended
    handler,        \* Client.logfile as a RotatingArchiveFileHandler: None, or Some([stream, maxBytes, backupCount])
    disk,           \* the archive directory: 0 is the record file, i is its backup "<file>.i"; None where no file exists
    trace,          \* history: the steps _on_sbs_message has taken (archive, raw, parsed), each with the ordinal of its line
    rolled,         \* history: None, or Some(the directory before and after the last doRollover)
    fresh,          \* history: None, or Some(the records written since the last doRollover)
    dropped,        \* history: the records emit was called with and did not write
    disk_ok,        \* the environment: FALSE while the file system fails every operation
    protocols,      \* Server.protocols: the registered peers
    links,          \* the connections the server has accepted, per peer
    applied,        \* history: hex_ident -> the Transmission messages applied to its record since it was created
    clients,        \* the Clients Session.connect has built, in order: the state of each one's connection
    attached,       \* Session.client: 0 for None, or the index in clients of the Client it refers to
    call,           \* the coroutine of the Session that is in progress: none, connect, disconnect or close
    running         \* the call of on_sbs_message the event loop is executing: None, or Some([line, hex, stage])

vars == <<pconn, buf, rx, cb_lines, escaped, cfg, archiving_enabled, archived,
          raw_calls, msg_calls, wire, sent, aircraft, now, s_archiving,
          s_archived, ac, accepted, split_delim, last, client, session,
          cache_file, opened, outcome, handler, disk, trace, rolled, fresh,
          dropped, disk_ok, protocols, links, applied, clients, attached,
          call, running>>

protoVars == <<pconn, buf, rx, cb_lines, escaped, split_delim>>
clientVars == <<cfg, archiving_enabled, archived, raw_calls, msg_calls>>
netVars == <<wire, sent>>
sessionVars == <<aircraft, s_archiving, s_archived>>
acVars == <<ac, accepted>>
lifeVars == <<client, session, cache_file, opened, outcome>>
archVars == <<handler, disk, trace, rolled, fresh, dropped>>
serverVars == <<protocols, links>>
ghostVars == <<applied>>
connVars == <<clients, attached, call>>
envVars == <<disk_ok, serverVars, ghostVars, connVars, running>>

----------------------------------------------------------------------------
(* Bounds of the model. *)

MaxStream == 7      \* bytes fed to the decoder (SpecFrame)
MaxLines == 2       \* lines the server sends (Spec)
MaxTime == 3        \* the clock stops here (SpecSession)
MaxApplied == 2     \* Transmission messages applied to the Session (SpecSession)
MaxAccepted == 3    \* samples appended to the stand-alone aircraft's history (SpecAircraft)
MaxTs == 3          \* the largest timestamp passed to the stand-alone aircraft (SpecAircraft)
MaxMinutes == 2     \* the clock of SpecLifecycle stops after this many minutes

----------------------------------------------------------------------------
(* Values. *)

None == <<>>
Some(v) == <<v>>

CR == "CR"
LF == "LF"
DELIMITER == <<CR, LF>>
BadByte == "xFF"

Last(s) == s[Len(s)]

RECURSIVE Concat(_)
Concat(ss) == IF ss = <<>> THEN <<>> ELSE Head(ss) \o Concat(Tail(ss))

IsPrefix(s, t) == Len(s) <= Len(t) /\ SubSeq(t, 1, Len(s)) = s


----------------------------------------------------------------------------
(* The message codec (adsb.sbs.message): fromString.  A line is the        *)
(* sequence of its comma-separated fields.                                 *)

FieldNames ==
    << "message_type", "transmission_type", "session_id", "aircraft_id",
       "hex_ident", "flight_id", "generated_date", "generated_time",
       "logged_date", "logged_time", "callsign", "altitude", "ground_speed",
       "track", "lat", "lon", "vertical_rate", "squawk", "alert",
       "emergency", "spi", "is_on_ground" >>

FieldSet == { FieldNames[i] : i \in 1..Len(FieldNames) }

\* The column of each field.
FieldIndex == [f \in FieldSet |-> CHOOSE i \in 1..Len(FieldNames) : FieldNames[i] = f]

MessageTypes == {"MSG", "STA", "ID", "AIR", "SEL", "CLK"}
Transmission == "MSG"

IntegerFields == {"transmission_type", "session_id", "aircraft_id", "flight_id",
                  "altitude", "ground_speed", "track", "vertical_rate"}
DecimalFields == {"lat", "lon"}
BooleanFields == {"alert", "emergency", "spi", "is_on_ground"}

\* The decimal numerals of the modelled lines and the integers they denote.
IntOf ==
    ("1" :> 1) @@ ("2" :> 2) @@ ("3" :> 3) @@ ("4" :> 4) @@ ("5" :> 5) @@
    ("6" :> 6) @@ ("7" :> 7) @@ ("8" :> 8) @@ ("2850" :> 2850) @@
    ("3000" :> 3000) @@ ("450" :> 450) @@ ("90" :> 90) @@ ("-64" :> -64)

\* Decimal degrees, held in units of 1e-5 degree.
DecimalOf ==
    ("-34.84658" :> -3484658) @@ ("138.67962" :> 13867962) @@
    ("-34.90000" :> -3490000) @@ ("138.70000" :> 13870000) @@
    ("-34.9" :> -3490000) @@ ("138.7" :> 13870000)

BoolOf == ("1" :> TRUE) @@ ("0" :> FALSE)

\* str.strip() on the texts that carry surrounding spaces.
StripOf == ("QFA1    " :> "QFA1") @@ (" " :> "")

Strip(text) == IF text \in DOMAIN StripOf THEN StripOf[text] ELSE text

RECURSIVE RStripDelimiter(_)
RStripDelimiter(line) ==
    IF line # <<>> /\ Last(line) \in {CR, LF}
    THEN RStripDelimiter(SubSeq(line, 1, Len(line) - 1))
    ELSE line

\* One field converted to its type: [ok |-> FALSE] when the conversion fails.
ConvertField(name, text) ==
    LET v == Strip(text) IN
    IF v = "" THEN [ok |-> TRUE, val |-> None]
    ELSE IF name = "message_type"
         THEN [ok |-> v \in MessageTypes, val |-> Some(v)]
    ELSE IF name \in IntegerFields
         THEN IF v \in DOMAIN IntOf THEN [ok |-> TRUE, val |-> Some(IntOf[v])]
                                    ELSE [ok |-> FALSE, val |-> None]
    ELSE IF name \in DecimalFields
         THEN IF v \in DOMAIN DecimalOf THEN [ok |-> TRUE, val |-> Some(DecimalOf[v])]
                                        ELSE [ok |-> FALSE, val |-> None]
    ELSE IF name \in BooleanFields
         THEN IF v \in DOMAIN BoolOf THEN [ok |-> TRUE, val |-> Some(BoolOf[v])]
                                     ELSE [ok |-> FALSE, val |-> None]
    ELSE [ok |-> TRUE, val |-> Some(v)]

\* fromString: [ok |-> FALSE] stands for the exception it raises.
fromString(line) ==
    LET values == RStripDelimiter(line) IN
    IF Len(values) # Len(FieldNames) \/ values[1] \notin MessageTypes
    THEN [ok |-> FALSE, msg |-> None]
    ELSE LET conv == [i \in 1..Len(FieldNames) |-> ConvertField(FieldNames[i], values[i])] IN
         IF \E i \in 1..Len(FieldNames) : ~conv[i].ok
         THEN [ok |-> FALSE, msg |-> None]
         ELSE [ok |-> TRUE,
               msg |-> [f \in FieldSet |-> conv[FieldIndex[f]].val]]

\* The text toString writes for a number: the shortest decimal numeral.
IntText ==
    (1 :> "1") @@ (2 :> "2") @@ (3 :> "3") @@ (4 :> "4") @@ (5 :> "5") @@
    (6 :> "6") @@ (7 :> "7") @@ (8 :> "8") @@ (2850 :> "2850") @@
    (3000 :> "3000") @@ (450 :> "450") @@ (90 :> "90") @@ (-64 :> "-64")

DecimalText ==
    (-3484658 :> "-34.84658") @@ (13867962 :> "138.67962") @@
    (-3490000 :> "-34.9") @@ (13870000 :> "138.7")

BoolText == [b \in BOOLEAN |-> IF b THEN "1" ELSE "0"]

\* Mutant of FormatField: a null field is written as the text "None".
FormatField_NoneText(name, val) ==
    IF val = None THEN "None"
    ELSE IF name \in IntegerFields THEN IntText[val[1]]
    ELSE IF name \in DecimalFields THEN DecimalText[val[1]]
    ELSE IF name \in BooleanFields THEN BoolText[val[1]]
    ELSE val[1]

\* One field of a message as text: empty for null, the decimal text of a
\* number, "1" or "0" for a boolean.
FormatField(name, val) ==
    IF val = None THEN ""
    ELSE IF name \in IntegerFields THEN IntText[val[1]]
    ELSE IF name \in DecimalFields THEN DecimalText[val[1]]
    ELSE IF name \in BooleanFields THEN BoolText[val[1]]
    ELSE val[1]

\* toString: the fields of the message in the order of the field table.
toString(msg) ==
    [i \in 1..Len(FieldNames) |-> FormatField(FieldNames[i], msg[FieldNames[i]])]

\* A field that is always present in a parsed message, unwrapped.
HexIdent(msg) == msg["hex_ident"][1]
MsgType(msg) == msg["message_type"][1]

\* TransmissionType (adsb.sbs.message): the values Session.on_sbs_message tests.
ES_IDENT_AND_CATEGORY == 1
ES_SURFACE_POS == 2
ES_AIRBORNE_POS == 3
ES_AIRBORNE_VEL == 4
SURVEILLANCE_ALT == 5
AIR_TO_AIR == 7

ZeroIcao == "000000"

----------------------------------------------------------------------------
(* Aircraft (adsb/sbs/aircraft.py). *)

HistorySizeDefault == 50
HistoryIntervalDefault == 5

\* Aircraft.__init__
NewAircraft(hex_ident, history_size, history_interval) ==
    [ icao |-> hex_ident,
      callsign |-> None,
      last_seen |-> None,
      altitude |-> None,
      latitude |-> None,
      longitude |-> None,
      ground_speed |-> None,
      track |-> None,
      vertical_rate |-> None,
      msg_count |-> 0,
      origin |-> None,
      details |-> <<>>,
      history_interval |-> IF history_interval = None \/ history_interval = Some(0)
                           THEN None ELSE history_interval,
      maxlen |-> history_size,
      history |-> <<>> ]

\* haversine_distance(origin, destination) (adsb/utils.py): the great-circle
\* distance of two (lat, lon) pairs, kept as the pair it is computed from.
HaversineDistance(origin, destination) == [from |-> origin, to |-> destination]

\* Aircraft.distance.  position is (latitude, longitude); origin is None or
\* a (lat, lon) tuple.  `None not in self.position and None not in
\* self.origin`: the second test is evaluated only when the first holds, and
\* `None not in None` raises TypeError.
Distance(a) ==
    IF a.latitude = None \/ a.longitude = None
    THEN [raised |-> FALSE, dist |-> None]
    ELSE IF a.origin = None
    THEN [raised |-> TRUE, dist |-> None]
    ELSE IF a.origin[1][1] = None \/ a.origin[1][2] = None
    THEN [raised |-> FALSE, dist |-> None]
    ELSE [raised |-> FALSE,
          dist |-> Some(HaversineDistance(<<a.origin[1][1][1], a.origin[1][2][1]>>,
                                          <<a.latitude[1], a.longitude[1]>>))]

\* Mutant of DequeAppend: a full deque discards the new item.
DequeAppend_DropNewest(h, maxlen, x) ==
    IF Len(h) >= maxlen THEN h ELSE Append(h, x)

\* collections.deque(maxlen=n).append: the oldest items are discarded once
\* the deque holds maxlen items; a deque of maxlen 0 holds nothing.
DequeAppend(h, maxlen, x) ==
    LET h2 == Append(h, x) IN
    IF Len(h2) > maxlen THEN SubSeq(h2, Len(h2) - maxlen + 1, Len(h2)) ELSE h2

\* Mutant of HistoryGate: the first sample of an empty history is not taken.
HistoryGate_NotWhenEmpty(a, timestamp) ==
    IF a.history # <<>>
    THEN IF a.history_interval # None
         THEN timestamp > Last(a.history)[1] + a.history_interval[1]
         ELSE TRUE
    ELSE FALSE

\* The test of update_position that guards history.append.
HistoryGate(a, timestamp) ==
    IF a.history # <<>>
    THEN IF a.history_interval # None
         THEN timestamp > Last(a.history)[1] + a.history_interval[1]
         ELSE TRUE
    ELSE TRUE

\* Mutant of UpdatePosition: an update that the gate holds back is discarded
\* altogether.
UpdatePosition_DiscardGated(a, alt, lat, lon, timestamp) ==
    IF HistoryGate(a, timestamp)
    THEN [a EXCEPT !.last_seen = Some(timestamp),
                   !.altitude = alt,
                   !.latitude = lat,
                   !.longitude = lon,
                   !.history = DequeAppend(a.history, a.maxlen, <<timestamp, lat, lon, alt>>)]
    ELSE a

\* Aircraft.update_position
UpdatePosition(a, alt, lat, lon, timestamp) ==
    LET a1 == [a EXCEPT !.last_seen = Some(timestamp),
                        !.altitude = alt,
                        !.latitude = lat,
                        !.longitude = lon] IN
    IF HistoryGate(a1, timestamp)
    THEN [a1 EXCEPT !.history = DequeAppend(a1.history, a1.maxlen, <<timestamp, lat, lon, alt>>)]
    ELSE a1

\* Aircraft.update_ident
UpdateIdent(a, callsign, timestamp) ==
    [a EXCEPT !.last_seen = Some(timestamp), !.callsign = callsign]

\* Mutant of UpdateMotion: the velocity update also clears the altitude.
UpdateMotion_ClearsAltitude(a, ground_speed, track, vertical_rate, timestamp) ==
    [a EXCEPT !.ground_speed = ground_speed,
              !.track = track,
              !.vertical_rate = vertical_rate,
              !.altitude = None,
              !.last_seen = Some(timestamp)]

\* Aircraft.update_motion
UpdateMotion(a, ground_speed, track, vertical_rate, timestamp) ==
    [a EXCEPT !.ground_speed = ground_speed,
              !.track = track,
              !.vertical_rate = vertical_rate,
              !.last_seen = Some(timestamp)]

\* Aircraft.update_altitude
UpdateAltitude(a, alt, timestamp) ==
    [a EXCEPT !.last_seen = Some(timestamp), !.altitude = alt]

----------------------------------------------------------------------------
(* Session.on_sbs_message (adsb/sbs/session.py).  The callbacks work on a  *)
(* record w of the variables they may change:                              *)
(*   cb_lines, archived, raw_calls, msg_calls, aircraft, s_archived,       *)
(*   handler, disk, trace, rolled, fresh, dropped                          *)
(* and return it with raised |-> TRUE when an exception leaves them.       *)

World ==
    [ cb_lines |-> cb_lines, archived |-> archived, raw_calls |-> raw_calls,
      msg_calls |-> msg_calls, aircraft |-> aircraft, s_archived |-> s_archived,
      handler |-> handler, disk |-> disk, trace |-> trace, rolled |-> rolled,
      fresh |-> fresh, dropped |-> dropped,
      raised |-> FALSE ]

\* Session.origin as the constructor leaves it by default.
SessionOrigin == None

\* Mutant of IsZeroIcao: the invalid ICAO code is not recognised.
IsZeroIcao_Never(msg) == FALSE

\* The guard of on_sbs_message and _on_sbs_message that rejects the invalid
\* ICAO code.
IsZeroIcao(msg) == msg["hex_ident"] = Some(ZeroIcao)

\* The branch of on_sbs_message on the transmission type.
ApplyTransmission(a, msg, timestamp) ==
    LET tt == msg["transmission_type"] IN
    IF tt = Some(ES_IDENT_AND_CATEGORY)
    THEN IF a.callsign # msg["callsign"]
         THEN UpdateIdent(a, msg["callsign"], timestamp)
         ELSE a
    ELSE IF tt \in {Some(ES_SURFACE_POS), Some(ES_AIRBORNE_POS)}
    THEN UpdatePosition(a, msg["altitude"], msg["lat"], msg["lon"], timestamp)
    ELSE IF tt = Some(ES_AIRBORNE_VEL)
    THEN UpdateMotion(a, msg["ground_speed"], msg["track"], msg["vertical_rate"], timestamp)
    ELSE IF tt \in {Some(AIR_TO_AIR), Some(SURVEILLANCE_ALT)}
    THEN UpdateAltitude(a, msg["altitude"], timestamp)
    ELSE a

\* The record on_sbs_message works on: the one in the map, or a new one.
LookupOrCreate(map, hex) ==
    IF hex \notin DOMAIN map
    THEN [NewAircraft(hex, HistorySizeDefault, Some(HistoryIntervalDefault))
             EXCEPT !.origin = SessionOrigin]
    ELSE map[hex]

\* Mutant of SessionOnSbsMessage: a message of a type that updates no field
\* is not counted.
SessionOnSbsMessage_CountsUpdates(w, line) ==
    LET p == fromString(line) IN
    IF ~p.ok THEN [w EXCEPT !.raised = TRUE]
    ELSE IF IsZeroIcao(p.msg) THEN w
    ELSE IF MsgType(p.msg) = Transmission
    THEN LET hex == HexIdent(p.msg)
             a0 == LookupOrCreate(w.aircraft, hex)
             a2 == ApplyTransmission(a0, p.msg, now)
             a3 == IF a2 = a0 THEN a0
                   ELSE [a2 EXCEPT !.last_seen = Some(now), !.msg_count = @ + 1]
         IN  [w EXCEPT !.aircraft = (hex :> a3) @@ w.aircraft,
                       !.s_archived = IF s_archiving THEN Append(@, line) ELSE @]
    ELSE w

\* Session.on_sbs_message
SessionOnSbsMessage(w, line) ==
    LET p == fromString(line) IN
    IF ~p.ok THEN [w EXCEPT !.raised = TRUE]
    ELSE IF IsZeroIcao(p.msg) THEN w
    ELSE IF MsgType(p.msg) = Transmission
    THEN LET hex == HexIdent(p.msg)
             w1 == IF s_archiving
                   THEN [w EXCEPT !.s_archived = Append(@, line)]
                   ELSE w
             a0 == LookupOrCreate(w1.aircraft, hex)
             a1 == [a0 EXCEPT !.last_seen = Some(now), !.msg_count = @ + 1]
             a2 == ApplyTransmission(a1, p.msg, now)
         IN  [w1 EXCEPT !.aircraft = (hex :> a2) @@ w1.aircraft]
    ELSE w

----------------------------------------------------------------------------
(* RotatingArchiveFileHandler (adsb/sbs/archive.py).  A file is the        *)
(* sequence of the records written to it, a written record being           *)
(*   [timestamp |-> t, msg |-> m]  for the text  isoformat(t) "," m "\r\n" *)
(* and its length the length of that text, one atom of m counting as one   *)
(* character.  The directory maps 0 to the base file and i to the backup   *)
(* "<baseFilename>.i".                                                     *)

terminator == DELIMITER

\* len(timestamp.isoformat()) of a UTC datetime, "2017-03-25T10:41:45.365000+00:00".
TimestampLen == 32

\* The backup indexes of the directory: one more than the largest backupCount.
FileIndexes == 0..3

NoFiles == [i \in FileIndexes |-> None]

\* The text written for one record.
WrittenLen(r) == TimestampLen + 1 + Len(r.msg) + Len(terminator)

\* stream.seek(0, 2); stream.tell(): the size of the file.
RECURSIVE Tell(_)
Tell(file) ==
    IF file = <<>> THEN 0 ELSE WrittenLen(Head(file)) + Tell(Tail(file))

\* _open(): open(baseFilename, 'a') creates the file when there is none and
\* keeps its content otherwise.
Open(dk) == IF dk[0] = None THEN [dk EXCEPT ![0] = Some(<<>>)] ELSE dk

\* RotatingArchiveFileHandler(filename, maxBytes=maxBytes, backupCount=backupCount)
NewHandler(maxBytes, backupCount) ==
    [stream |-> TRUE, maxBytes |-> maxBytes, backupCount |-> backupCount]

\* The defaults of Client.start_recording.
ClientMaxBytes == 2 ^ 23
ClientBackupCount == 3

\* shouldRollover(record), called with an open stream.
shouldRollover(h, dk, record) ==
    /\ h.maxBytes > 0
    /\ Tell(dk[0][1]) + Len(record) + Len(terminator) >= h.maxBytes

\* The loop of doRollover: for i in range(backupCount - 1, 0, -1), rename
\* "<base>.i" to "<base>.(i+1)" when it exists.
RECURSIVE ShiftBackups(_, _)
ShiftBackups(dk, i) ==
    IF i < 1 THEN dk
    ELSE IF dk[i] # None
         THEN ShiftBackups([dk EXCEPT ![i + 1] = dk[i], ![i] = None], i - 1)
         ELSE ShiftBackups(dk, i - 1)

\* rotate(source, dest): os.rename when the source exists.
Rotate(dk, source, dest) ==
    IF dk[source] # None
    THEN [dk EXCEPT ![dest] = dk[source], ![source] = None]
    ELSE dk

\* Mutant of doRollover: the loop starts at backupCount, one backup too many.
doRollover_OneMore(h, dk) ==
    IF h.backupCount > 0
    THEN Open(Rotate([ShiftBackups(dk, h.backupCount) EXCEPT ![1] = None], 0, 1))
    ELSE Open(dk)

\* doRollover(): the directory after the stream is closed, the backups are
\* shifted, the base file is renamed and the base file is opened again.
doRollover(h, dk) ==
    IF h.backupCount > 0
    THEN Open(Rotate([ShiftBackups(dk, h.backupCount - 1) EXCEPT ![1] = None], 0, 1))
    ELSE Open(dk)

\* Mutant of Write: the record replaces the content of the file.
Write_Overwrite(dk, timestamp, record) ==
    [dk EXCEPT ![0] = Some(<<[timestamp |-> timestamp, msg |-> record]>>)]

\* stream.write(f'{timestamp.isoformat()},{msg}{self.terminator}'); flush()
Write(dk, timestamp, record) ==
    [dk EXCEPT ![0] = Some(Append(dk[0][1], [timestamp |-> timestamp, msg |-> record]))]

\* The effect of emit: the handler, the directory, the directory before and
\* after a rollover, whether the record was written, whether emit raised.
EmitResult(h, dk, r, wrote, raised) ==
    [handler |-> h, disk |-> dk, rolled |-> r, wrote |-> wrote, raised |-> raised]

\* Mutant of Emit: the exception of a failed write or rollover is not caught.
Emit_Uncaught(h, dk, ok, timestamp, record) ==
    IF ~h.stream THEN EmitResult(h, dk, None, FALSE, FALSE)
    ELSE IF shouldRollover(h, dk, record)
    THEN IF ok
         THEN LET d1 == doRollover(h, dk) IN
              EmitResult(h, Write(d1, timestamp, record),
                         Some([before |-> dk, after |-> d1]), TRUE, FALSE)
         ELSE EmitResult([h EXCEPT !.stream = FALSE], dk, None, FALSE, TRUE)
    ELSE IF ok
         THEN EmitResult(h, Write(dk, timestamp, record), None, TRUE, FALSE)
         ELSE EmitResult(h, dk, None, FALSE, TRUE)

\* emit(record).  Nothing is written without a stream.  While the file
\* system fails, the first operation of doRollover after the stream is
\* closed raises and leaves the handler without a stream, and write raises
\* with nothing written; the exception is logged.
Emit(h, dk, ok, timestamp, record) ==
    IF ~h.stream THEN EmitResult(h, dk, None, FALSE, FALSE)
    ELSE IF shouldRollover(h, dk, record)
    THEN IF ok
         THEN LET d1 == doRollover(h, dk) IN
              EmitResult(h, Write(d1, timestamp, record),
                         Some([before |-> dk, after |-> d1]), TRUE, FALSE)
         ELSE EmitResult([h EXCEPT !.stream = FALSE], dk, None, FALSE, FALSE)
    ELSE IF ok
         THEN EmitResult(h, Write(dk, timestamp, record), None, TRUE, FALSE)
         ELSE EmitResult(h, dk, None, FALSE, FALSE)

\* The effects e of an emit of the line on the callbacks' record.
Archived(w, line, e) ==
        [w EXCEPT !.archived = Append(@, line),
                  !.handler = Some(e.handler),
                  !.disk = e.disk,
                  !.trace = Append(@, [step |-> "archive", n |-> Len(w.cb_lines)]),
                  !.rolled = IF e.rolled # None THEN e.rolled ELSE @,
                  !.fresh = IF e.rolled # None
                            THEN Some(<<[timestamp |-> now, msg |-> line]>>)
                            ELSE IF @ # None /\ e.wrote
                            THEN Some(Append(@[1], [timestamp |-> now, msg |-> line]))
                            ELSE @,
                  !.dropped = IF e.wrote THEN @ ELSE Append(@, line),
                  !.raised = e.raised]

\* self.logfile.emit(msg_str) as the Client calls it.
Archive(w, line) == Archived(w, line, Emit(w.handler[1], w.disk, disk_ok, now, line))

----------------------------------------------------------------------------
(* Client._on_sbs_message (adsb/sbs/client.py). *)

\* bytes.decode(): fails on a byte sequence that is not UTF-8.
Decodable(line) == \A i \in 1..Len(line) : line[i] # BadByte

\* Mutant of DispatchParsed: the exception of fromString is not caught.
DispatchParsed_Uncaught(w, line) ==
    LET p == fromString(line) IN
    IF ~p.ok THEN [w EXCEPT !.raised = TRUE]
    ELSE IF IsZeroIcao(p.msg) THEN w
    ELSE [w EXCEPT !.msg_calls = Append(@, p.msg),
                   !.trace = Append(@, [step |-> "parsed", n |-> Len(w.cb_lines)])]

\* The part of _on_sbs_message that serves the parsed-message callback.
DispatchParsed(w, line) ==
    LET p == fromString(line) IN
    IF ~p.ok THEN w
    ELSE IF IsZeroIcao(p.msg) THEN w
    ELSE [w EXCEPT !.msg_calls = Append(@, p.msg),
                   !.trace = Append(@, [step |-> "parsed", n |-> Len(w.cb_lines)])]

\* The part of _on_sbs_message that serves the raw-message callback.
DispatchRaw(w, line) ==
    LET w1 == [w EXCEPT !.raw_calls = Append(@, line),
                        !.trace = Append(@, [step |-> "raw", n |-> Len(w.cb_lines)])]
    IN  IF cfg.raw_cb = "session" THEN SessionOnSbsMessage(w1, line) ELSE w1

\* _on_sbs_message from the parsed-message callback on, w being the
\* callbacks' record so far.
ServeParsed(w, line) ==
    IF w.raised THEN w
    ELSE IF cfg.msg_cb THEN DispatchParsed(w, line) ELSE w

\* _on_sbs_message from the raw-message callback on.
ServeRaw(w, line) ==
    IF w.raised THEN w
    ELSE ServeParsed(IF cfg.raw_cb # "none" THEN DispatchRaw(w, line) ELSE w, line)

\* The archive step when it comes after the raw callback.
ArchiveLate(w, line) ==
    IF w.raised \/ ~archiving_enabled THEN w ELSE Archive(w, line)

\* Mutant of ClientOnSbsMessage: the raw callback is served before the
\* line is archived.
ClientOnSbsMessage_RawFirst(w, line) ==
    IF ~Decodable(line) THEN [w EXCEPT !.raised = TRUE]
    ELSE ServeParsed(ArchiveLate(IF cfg.raw_cb # "none" THEN DispatchRaw(w, line) ELSE w,
                                 line), line)

\* Client._on_sbs_message
ClientOnSbsMessage(w, line) ==
    IF ~Decodable(line) THEN [w EXCEPT !.raised = TRUE]
    ELSE ServeRaw(IF archiving_enabled THEN Archive(w, line) ELSE w, line)

----------------------------------------------------------------------------
(* SBSProtocol (adsb/sbs/protocol.py). *)

\* The index of the first delimiter in b, 0 when there is none.
FindDelimiter(b) ==
    IF \E i \in 1..(Len(b) - 1) : b[i] = CR /\ b[i + 1] = LF
    THEN CHOOSE i \in 1..(Len(b) - 1) :
            /\ b[i] = CR /\ b[i + 1] = LF
            /\ \A j \in 1..(i - 1) : ~(b[j] = CR /\ b[j + 1] = LF)
    ELSE 0

\* bytearray.partition(DELIMITER): <<before, separator, after>>.
Partition(b) ==
    LET i == FindDelimiter(b) IN
    IF i = 0 THEN <<b, <<>>, <<>>>>
    ELSE <<SubSeq(b, 1, i - 1), DELIMITER, SubSeq(b, i + 2, Len(b))>>

\* Mutant of Extend: the chunk replaces the buffer instead of extending it.
Extend_Replace(b, data) == data

\* self.buf.extend(data)
Extend(b, data) == b \o data

\* Mutant of Dispatchable: empty lines are dispatched too.
Dispatchable_Always(msg) == TRUE

\* The test `msg and self.on_message_received` (a Client always sets the callback).
Dispatchable(msg) == msg # <<>>

\* Mutant of ExtractLoop: `if` for `while`, one line is extracted per call.
ExtractLoop_Once(b, w) ==
    IF b = <<>> THEN [buf |-> b, w |-> w]
    ELSE LET p == Partition(b) IN
         IF p[2] = <<>> THEN [buf |-> b, w |-> w]
         ELSE IF Dispatchable(p[1])
              THEN [buf |-> p[3],
                    w |-> ClientOnSbsMessage([w EXCEPT !.cb_lines = Append(@, p[1])], p[1])]
              ELSE [buf |-> p[3], w |-> w]

\* The loop of data_received on the buffer b: the remaining buffer and the
\* callbacks' effects; it ends early when the callback raises.
RECURSIVE ExtractLoop(_, _)
ExtractLoop(b, w) ==
    IF b = <<>> THEN [buf |-> b, w |-> w]
    ELSE LET p == Partition(b) IN
         IF p[2] = <<>> THEN [buf |-> b, w |-> w]
         ELSE IF Dispatchable(p[1])
              THEN LET w1 == ClientOnSbsMessage([w EXCEPT !.cb_lines = Append(@, p[1])], p[1]) IN
                   IF w1.raised THEN [buf |-> p[3], w |-> w1]
                                ELSE ExtractLoop(p[3], w1)
              ELSE ExtractLoop(p[3], w)

\* The state data_received leaves, r being the remaining buffer and the
\* callbacks' record its loop returns.
Received(r) ==
       /\ buf' = Some(r.buf)
       /\ cb_lines' = r.w.cb_lines
       /\ archived' = r.w.archived
       /\ raw_calls' = r.w.raw_calls
       /\ msg_calls' = r.w.msg_calls
       /\ aircraft' = r.w.aircraft
       /\ s_archived' = r.w.s_archived
       /\ handler' = r.w.handler
       /\ disk' = r.w.disk
       /\ trace' = r.w.trace
       /\ rolled' = r.w.rolled
       /\ fresh' = r.w.fresh
       /\ dropped' = r.w.dropped
       /\ escaped' = (escaped \/ r.w.raised)

\* SBSProtocol.data_received
DataReceived(data) ==
    /\ pconn = "connected"
    /\ Received(ExtractLoop(Extend(buf[1], data), World))
    /\ rx' = rx \o data
    /\ split_delim' = (split_delim \/ (buf[1] # <<>> /\ Last(buf[1]) = CR /\ Head(data) = LF))
    /\ UNCHANGED <<pconn, cfg, archiving_enabled, now, s_archiving, ac, accepted, last, lifeVars>>
    /\ UNCHANGED envVars

\* Mutant of ConnectionLost: the pending bytes are dispatched as a last line.
ConnectionLost_Flush ==
    /\ pconn = "connected"
    /\ pconn' = "lost"
    /\ buf' = None
    /\ cb_lines' = IF buf[1] # <<>> THEN Append(cb_lines, buf[1]) ELSE cb_lines
    /\ UNCHANGED <<rx, escaped, split_delim, wire, sent>>
    /\ last' = [op |-> "connection_lost", args |-> <<>>]
    /\ UNCHANGED <<clientVars, sessionVars, acVars, now, lifeVars>>
    /\ UNCHANGED <<archVars, envVars>>

\* SBSProtocol.connection_lost
ConnectionLost ==
    /\ pconn = "connected"
    /\ pconn' = "lost"
    /\ buf' = None
    /\ UNCHANGED <<rx, cb_lines, escaped, split_delim, wire, sent>>
    /\ last' = [op |-> "connection_lost", args |-> <<>>]
    /\ UNCHANGED <<clientVars, sessionVars, acVars, now, lifeVars>>
    /\ UNCHANGED <<archVars, envVars>>

----------------------------------------------------------------------------
(* The Client and Session objects. *)

\* The name of the record file in the runs modelled.
RecordFile == "messages.txt"

\* Session(session_threshold_minutes=2)
SessionThresholdMinutesDefault == 2

\* No Client has been constructed.
NoClient ==
    [ obj |-> "none", record |-> FALSE, record_file |-> None,
      logfile |-> None, protocol |-> FALSE, pc |-> "idle" ]

\* A Client after a start() that connected, recording or not.
StartedClient(recording) ==
    [ obj |-> "built", record |-> recording,
      record_file |-> IF recording THEN Some(RecordFile) ELSE None,
      logfile |-> IF recording THEN Some(RecordFile) ELSE None,
      protocol |-> TRUE, pc |-> "idle" ]

\* No Session has been constructed.
NoSession ==
    [ obj |-> "none", record |-> FALSE, record_file |-> None,
      cache_enabled |-> FALSE, expiry_threshold |-> 0, logfile |-> None,
      monitor |-> "none", client |-> FALSE, pc |-> "idle" ]

\* Session() with the defaults of its constructor and no cache file on disk,
\* after connect().
OpenSession ==
    [ obj |-> "built", record |-> FALSE, record_file |-> None,
      cache_enabled |-> TRUE,
      expiry_threshold |-> 60 * SessionThresholdMinutesDefault,
      logfile |-> None, monitor |-> "running", client |-> TRUE, pc |-> "idle" ]

----------------------------------------------------------------------------
(* The state after construction and connection: a started Client whose     *)
(* protocol has had connection_made called, an empty Session map.          *)

InitCommon ==
    /\ pconn = "connected"
    /\ buf = Some(<<>>)
    /\ rx = <<>>
    /\ cb_lines = <<>>
    /\ escaped = FALSE
    /\ archived = <<>>
    /\ raw_calls = <<>>
    /\ msg_calls = <<>>
    /\ wire = <<>>
    /\ sent = <<>>
    /\ aircraft = <<>>
    /\ now = 0
    /\ s_archiving = FALSE
    /\ s_archived = <<>>
    /\ accepted = <<>>
    /\ split_delim = FALSE
    /\ last = [op |-> "init", args |-> <<>>]
    /\ cache_file = None
    /\ opened = {}
    /\ outcome = "ok"
    /\ trace = <<>>
    /\ rolled = None
    /\ fresh = None
    /\ dropped = <<>>
    /\ disk_ok = TRUE
    /\ protocols = {}
    /\ applied = <<>>
    /\ clients = <<>>
    /\ attached = 0
    /\ call = "none"
    /\ running = None

\* Client.logfile and the directory once the constructor, or start_recording
\* with its defaults, has run: the record file is created when recording.
Handler0 ==
    IF archiving_enabled THEN Some(NewHandler(ClientMaxBytes, ClientBackupCount)) ELSE None

Disk0 == IF archiving_enabled THEN Open(NoFiles) ELSE NoFiles

\* Aircraft(hex_ident) with the defaults of its constructor.
DefaultAircraft == NewAircraft("7C79B7", HistorySizeDefault, Some(HistoryIntervalDefault))

\* The callbacks' record in the initial state.
World0 ==
    [ cb_lines |-> <<>>, archived |-> <<>>, raw_calls |-> <<>>,
      msg_calls |-> <<>>, aircraft |-> <<>>, s_archived |-> <<>>,
      handler |-> Handler0, disk |-> Disk0, trace |-> <<>>, rolled |-> None,
      fresh |-> None, dropped |-> <<>>,
      raised |-> FALSE ]

----------------------------------------------------------------------------
(* SpecFrame: the frame decoder fed arbitrary bytes in arbitrary chunks.   *)
(* The Client records, has a raw-message callback of the user's and a      *)
(* parsed-message callback.                                                *)

FrameBytes == {CR, LF, "a", "b"}

ChunksUpTo(n) == UNION { [1..k -> FrameBytes] : k \in 1..n }

InitFrame ==
    /\ InitCommon
    /\ ac = DefaultAircraft
    /\ cfg = [raw_cb |-> "user", msg_cb |-> TRUE]
    /\ archiving_enabled = TRUE
    /\ handler = Handler0
    /\ disk = Disk0
    /\ links = <<>>
    /\ client = StartedClient(TRUE)
    /\ session = NoSession

\* The transport hands the protocol the next chunk of the stream.
FeedChunk ==
    /\ Len(rx) < MaxStream
    /\ \E data \in ChunksUpTo(MaxStream - Len(rx)) : DataReceived(data)
    /\ UNCHANGED netVars

NextFrame == FeedChunk \/ ConnectionLost

SpecFrame == InitFrame /\ [][NextFrame]_vars

----------------------------------------------------------------------------
(* The delimiters and segments of a byte stream, stated on the stream.     *)

DelimiterSet(s) == { i \in 1..(Len(s) - 1) : s[i] = CR /\ s[i + 1] = LF }

\* The position of the k-th delimiter of s (0 for k = 0).
DelimiterPos(s, k) ==
    IF k = 0 THEN -1
    ELSE CHOOSE i \in DelimiterSet(s) :
            Cardinality({ j \in DelimiterSet(s) : j <= i }) = k

\* The bytes between the (k-1)-th and the k-th delimiter.
Segment(s, k) == SubSeq(s, DelimiterPos(s, k - 1) + 2, DelimiterPos(s, k) - 1)

\* The bytes after the last delimiter.
Trailing(s) ==
    SubSeq(s, DelimiterPos(s, Cardinality(DelimiterSet(s))) + 2, Len(s))

NonEmpty(x) == x # <<>>

\* The non-empty segments, in stream order.
CompleteLines(s) ==
    SelectSeq([k \in 1..Cardinality(DelimiterSet(s)) |-> Segment(s, k)], NonEmpty)

----------------------------------------------------------------------------
(* Claims about the frame decoder (SpecFrame). *)

C3_HeartbeatNeverDispatched ==
    /\ \A i \in 1..Len(cb_lines) : cb_lines[i] # <<>>
    /\ \A i \in 1..Len(archived) : archived[i] # <<>>
    /\ \A i \in 1..Len(raw_calls) : raw_calls[i] # <<>>
    /\ Len(archived) = Len(cb_lines)
    /\ Len(raw_calls) = Len(cb_lines)
    /\ Len(cb_lines) =
         Cardinality({ k \in 1..Cardinality(DelimiterSet(rx)) : Segment(rx, k) # <<>> })

\* C3 witness: a heartbeat was received after a line and before the end of
\* the stream received so far.
C3_Witness ==
    /\ \E k \in 2..Cardinality(DelimiterSet(rx)) :
          Segment(rx, k) = <<>> /\ Segment(rx, k - 1) # <<>>
    /\ Len(cb_lines) = 1
    /\ Trailing(rx) # <<>>

----------------------------------------------------------------------------
(* The lines of the message specifications.  A line has the 22 fields of   *)
(* FieldNames.                                                             *)

WireLine(mtype, ttype, hex, callsign, alt, gs, trk, lat, lon, vr) ==
    << mtype, ttype, "1", "1", hex, "1", "2017/03/25", "10:41:45.365",
       "2017/03/25", "10:41:45.384", callsign, alt, gs, trk, lat, lon, vr,
       "", "", "", "", "" >>

HexA == "7C79B7"
HexB == "A1B2C3"

\* MSG,3,1,1,7C79B7,1,2017/03/25,10:41:45.365,2017/03/25,10:41:45.384,,2850,,,-34.84658,138.67962,,,,,,
LPosA == WireLine("MSG", "3", HexA, "", "2850", "", "", "-34.84658", "138.67962", "")
LPosA2 == WireLine("MSG", "3", HexA, "", "3000", "", "", "-34.90000", "138.70000", "")
LSurfaceB == WireLine("MSG", "2", HexB, "", "", "", "", "-34.90000", "138.70000", "")
LIdentA == WireLine("MSG", "1", HexA, "QFA1    ", "", "", "", "", "", "")
LVelB == WireLine("MSG", "4", HexB, "", "", "450", "90", "", "", "-64")
LAltA == WireLine("MSG", "5", HexA, "", "3000", "", "", "", "", "")
LAllCallB == WireLine("MSG", "8", HexB, "", "", "", "", "", "", "")
LStaA == WireLine("STA", "", HexA, "", "", "", "", "", "", "")
LZero == WireLine("MSG", "3", ZeroIcao, "", "2850", "", "", "-34.84658", "138.67962", "")
\* Lines that fromString refuses: too few fields; a field that is no number.
LShort == <<"MSG", "3", "garbage">>
LBadAlt == WireLine("MSG", "3", HexA, "", "high", "", "", "-34.84658", "138.67962", "")
\* A line that is not UTF-8, and a heartbeat.
LNotUtf8 == <<BadByte>>
Heartbeat == <<>>

WellFormed(line) == Decodable(line) /\ fromString(line).ok

----------------------------------------------------------------------------
(* Spec: a server writes lines to a connected client, the transport hands  *)
(* the bytes to the protocol in chunks of any size.  The client is one     *)
(* with a parsed-message callback, the client of a Session (the raw        *)
(* callback is Session.on_sbs_message), or one with both.                  *)

ClientConfigs ==
    { [raw_cb |-> "none", msg_cb |-> TRUE],
      [raw_cb |-> "session", msg_cb |-> FALSE],
      [raw_cb |-> "session", msg_cb |-> TRUE] }

SentLines == {LPosA, LStaA, LZero, LShort, LNotUtf8, Heartbeat}

\* The sizes of the chunks the transport reads: one or two bytes, so that a
\* chunk can end at any byte of the stream, or all that is pending, so that a
\* chunk can hold several lines.
ChunkSizes(w) == {1, 2, Len(w)} \cap (1..Len(w))

Init ==
    /\ InitCommon
    /\ ac = DefaultAircraft
    /\ cfg \in ClientConfigs
    /\ archiving_enabled = FALSE
    /\ handler = Handler0
    /\ disk = Disk0
    /\ links = <<>>
    /\ client = StartedClient(FALSE)
    /\ session = IF cfg.raw_cb = "session" THEN OpenSession ELSE NoSession

\* Server.send_message: the message, which carries its delimiter, is written
\* to the peer's transport.
ServerSend ==
    /\ pconn = "connected"
    /\ Len(sent) < MaxLines
    /\ \E line \in SentLines :
         /\ wire' = wire \o line \o DELIMITER
         /\ sent' = Append(sent, line)
    /\ UNCHANGED <<protoVars, clientVars, sessionVars, acVars, now, last, lifeVars>>
    /\ UNCHANGED <<archVars, envVars>>

\* The transport reads some of the pending bytes and calls data_received.
Deliver ==
    /\ wire # <<>>
    /\ \E k \in ChunkSizes(wire) :
         /\ DataReceived(SubSeq(wire, 1, k))
         /\ wire' = SubSeq(wire, k + 1, Len(wire))
    /\ sent' = sent

Next == ServerSend \/ Deliver \/ ConnectionLost

Spec == Init /\ [][Next]_vars

----------------------------------------------------------------------------
(* Claims about the Client and the Session behind it (Spec). *)

NoBadByte(s) == \A i \in 1..Len(s) : s[i] # BadByte

\* The messages of the lines that decode, parse and do not carry the zero
\* ICAO code, in order.
RECURSIVE ParsedOf(_)
ParsedOf(lines) ==
    IF lines = <<>> THEN <<>>
    ELSE LET p == fromString(Head(lines)) IN
         (IF Decodable(Head(lines)) /\ p.ok /\ p.msg["hex_ident"] # Some(ZeroIcao)
          THEN <<p.msg>> ELSE <<>>) \o ParsedOf(Tail(lines))

\* The aircraft map after Session.on_sbs_message was called with each of the
\* lines in turn, a call that raises leaving the map as it was.
RECURSIVE SessionFold(_, _)
SessionFold(lines, map) ==
    IF lines = <<>> THEN map
    ELSE SessionFold(Tail(lines),
                     SessionOnSbsMessage([World0 EXCEPT !.aircraft = map], Head(lines)).aircraft)

CarriesZeroIcao(line) ==
    fromString(line).ok /\ fromString(line).msg["hex_ident"] = Some(ZeroIcao)

NotZeroLine(line) == ~CarriesZeroIcao(line)

\* C4: a message with hex_ident "000000" creates no record, changes no
\* record (the map is the one the other lines alone produce, msg_count and
\* last_seen included) and is never passed to the parsed-message callback.
C4_ZeroIcaoIgnored ==
    /\ ZeroIcao \notin DOMAIN aircraft
    /\ aircraft = SessionFold(SelectSeq(raw_calls, NotZeroLine), <<>>)
    /\ \A i \in 1..Len(msg_calls) : msg_calls[i]["hex_ident"] # Some(ZeroIcao)
    /\ Len(msg_calls) <= Len(SelectSeq(cb_lines, NotZeroLine))

\* C4 witness: a client with both callbacks was handed the zero-ICAO line
\* after a line that created a record.
C4_Witness ==
    /\ cfg = [raw_cb |-> "session", msg_cb |-> TRUE]
    /\ raw_calls = <<LPosA, LZero>>
    /\ HexA \in DOMAIN aircraft
    /\ Len(msg_calls) = 1

\* C5: in a Client with a parsed-message callback (and no raw callback) a
\* line that fromString refuses raises nothing out of data_received, is not
\* passed to the callback, and every well-formed line of the stream, before
\* or after it, is passed to the callback.
C5_ParseFailureCaught ==
    (cfg = [raw_cb |-> "none", msg_cb |-> TRUE] /\ NoBadByte(rx))
        => /\ ~escaped
           /\ msg_calls = ParsedOf(CompleteLines(rx))

\* C5 witness: a refused line was received, then a well-formed line that
\* reached the callback.
C5_Witness ==
    /\ cfg = [raw_cb |-> "none", msg_cb |-> TRUE]
    /\ CompleteLines(rx) = <<LShort, LPosA>>
    /\ Len(msg_calls) = 1
    /\ pconn = "connected"

\* C6: in a Session a malformed line raises nothing out of the raw-message
\* callback and data_received, and every complete line of the stream is
\* applied to the map.
C6_SessionParseFailureContained ==
    (cfg.raw_cb = "session" /\ NoBadByte(rx))
        => /\ ~escaped
           /\ aircraft = SessionFold(CompleteLines(rx), <<>>)

\* C7: with a parsed-message callback and only well-formed lines with a
\* non-zero hex_ident sent, the callback is invoked with the messages of the
\* lines sent, in the order sent, and once all bytes sent are read it has been
\* invoked once per line.
C7_OneCallPerLineSent ==
    (cfg.msg_cb /\ \A i \in 1..Len(sent) : WellFormed(sent[i]) /\ NotZeroLine(sent[i]))
        => /\ IsPrefix(msg_calls, ParsedOf(sent))
           /\ wire = <<>> => Len(msg_calls) = Len(sent)

\* C7 witness: two well-formed lines were sent and read, with a chunk
\* boundary inside a delimiter, and the callback has been invoked twice.
C7_Witness ==
    /\ cfg = [raw_cb |-> "none", msg_cb |-> TRUE]
    /\ sent = <<LPosA, LStaA>>
    /\ wire = <<>>
    /\ split_delim
    /\ Len(msg_calls) = 2

----------------------------------------------------------------------------
(* SpecSession: a Session whose on_sbs_message is called with one line at  *)
(* a time (by its client, or by a replay) while the clock advances and     *)
(* recording is started and stopped.                                       *)

SessionLines ==
    {LPosA, LPosA2, LIdentA, LVelB, LAltA, LAllCallB, LStaA, LZero, LShort}

\* The Transmission messages applied so far.
TotalMsgCount == LET Sum[S \in SUBSET (DOMAIN aircraft)] ==
                         IF S = {} THEN 0
                         ELSE LET h == CHOOSE x \in S : TRUE
                              IN  aircraft[h].msg_count + Sum[S \ {h}]
                 IN  Sum[DOMAIN aircraft]

InitSession ==
    /\ InitCommon
    /\ ac = DefaultAircraft
    /\ cfg = [raw_cb |-> "session", msg_cb |-> FALSE]
    /\ archiving_enabled = FALSE
    /\ handler = Handler0
    /\ disk = Disk0
    /\ links = <<>>
    /\ client = StartedClient(FALSE)
    /\ session = OpenSession

\* Session.on_sbs_message called with one of the lines; an exception goes to
\* the caller.
SessionApplyOf(lines) ==
    /\ session.obj = "built"
    /\ session.pc = "idle"
    /\ TotalMsgCount < MaxApplied
    /\ \E line \in lines :
         LET w == SessionOnSbsMessage(World, line) IN
         /\ aircraft' = w.aircraft
         /\ s_archived' = w.s_archived
         /\ last' = [op |-> "on_sbs_message", args |-> <<line>>]
    /\ UNCHANGED <<protoVars, clientVars, netVars, acVars, now, s_archiving, lifeVars>>
    /\ UNCHANGED <<archVars, disk_ok, serverVars, connVars, running>>

SessionMessageOf(lines) == SessionApplyOf(lines) /\ UNCHANGED ghostVars

SessionMessage == SessionMessageOf(SessionLines)

\* The clock advances.
Tick ==
    /\ now < MaxTime
    /\ now' = now + 1
    /\ last' = [op |-> "tick", args |-> <<>>]
    /\ UNCHANGED <<protoVars, clientVars, netVars, sessionVars, acVars, lifeVars>>
    /\ UNCHANGED <<archVars, envVars>>

\* Session.start_recording with a file name
SessionStartRecording ==
    /\ s_archiving' = TRUE
    /\ session' = [session EXCEPT !.logfile = IF s_archiving THEN @ ELSE Some(RecordFile)]
    /\ opened' = IF s_archiving THEN opened ELSE opened \cup {RecordFile}
    /\ last' = [op |-> "start_recording", args |-> <<>>]
    /\ UNCHANGED <<protoVars, clientVars, netVars, acVars, now, aircraft, s_archived>>
    /\ UNCHANGED <<client, cache_file, outcome>>
    /\ UNCHANGED <<archVars, envVars>>

\* Mutant of SessionStopRecording: stopping the recording empties the map.
SessionStopRecording_Clears ==
    /\ s_archiving' = FALSE
    /\ aircraft' = <<>>
    /\ session' = [session EXCEPT !.logfile = IF s_archiving THEN None ELSE @]
    /\ last' = [op |-> "stop_recording", args |-> <<>>]
    /\ UNCHANGED <<protoVars, clientVars, netVars, acVars, now, s_archived>>
    /\ UNCHANGED <<client, cache_file, opened, outcome>>
    /\ UNCHANGED <<archVars, envVars>>

\* Session.stop_recording
SessionStopRecording ==
    /\ s_archiving' = FALSE
    /\ session' = [session EXCEPT !.logfile = IF s_archiving THEN None ELSE @]
    /\ last' = [op |-> "stop_recording", args |-> <<>>]
    /\ UNCHANGED <<protoVars, clientVars, netVars, acVars, now, aircraft, s_archived>>
    /\ UNCHANGED <<client, cache_file, opened, outcome>>
    /\ UNCHANGED <<archVars, envVars>>

NextSession ==
    SessionMessage \/ Tick \/ SessionStartRecording \/ SessionStopRecording

SpecSession == InitSession /\ [][NextSession]_vars

----------------------------------------------------------------------------
(* Claims about Session.on_sbs_message (SpecSession). *)

\* C8: a Transmission message for a hex_ident that is not in the map creates
\* a record for it with msg_count 1; when the message is an airborne-position
\* message the new record has exactly one history sample, (timestamp, lat,
\* lon, altitude) of the message.
C8_NewRecordFromTransmission ==
    [][ last'.op = "on_sbs_message" =>
          LET p == fromString(last'.args[1]) IN
          (/\ p.ok
           /\ MsgType(p.msg) = Transmission
           /\ HexIdent(p.msg) # ZeroIcao
           /\ HexIdent(p.msg) \notin DOMAIN aircraft)
          => /\ HexIdent(p.msg) \in DOMAIN aircraft'
             /\ DOMAIN aircraft' = DOMAIN aircraft \cup {HexIdent(p.msg)}
             /\ aircraft'[HexIdent(p.msg)].icao = HexIdent(p.msg)
             /\ aircraft'[HexIdent(p.msg)].msg_count = 1
             /\ p.msg["transmission_type"] = Some(ES_AIRBORNE_POS)
                  => aircraft'[HexIdent(p.msg)].history =
                       << <<now, p.msg["lat"], p.msg["lon"], p.msg["altitude"]>> >>
      ]_vars

\* C8 witness: the airborne-position line of 7C79B7 was applied at a time
\* after the start, to a map that held another aircraft, and its record has
\* msg_count 1 and the one sample of that message.
C8_Witness ==
    /\ last = [op |-> "on_sbs_message", args |-> <<LPosA>>]
    /\ now > 0
    /\ HexB \in DOMAIN aircraft
    /\ HexA \in DOMAIN aircraft
    /\ aircraft[HexA].msg_count = 1
    /\ aircraft[HexA].history = << <<now, Some(-3484658), Some(13867962), Some(2850)>> >>

----------------------------------------------------------------------------
(* SpecAircraft: one Aircraft, built with a history capacity and a minimum *)
(* interval, whose update_position is called with arbitrary timestamps     *)
(* (seconds) and positions.                                                *)

HistorySizes == {0, 1, 2}

HistoryIntervals == {None, Some(0), Some(1), Some(2)}

\* The (alt, lat, lon) of the updates.
Positions ==
    { <<Some(2850), Some(-3484658), Some(13867962)>>,
      <<None, Some(-3484700), Some(13868000)>> }

\* Aircraft.origin: as the constructor leaves it, or the (lat, lon) tuple a
\* Session assigns, with or without values.
Origins == {None, Some(<<None, None>>), Some(<<Some(-3490000), Some(13860000)>>)}

InitAircraft ==
    /\ InitCommon
    /\ cfg = [raw_cb |-> "none", msg_cb |-> FALSE]
    /\ archiving_enabled = FALSE
    /\ handler = Handler0
    /\ disk = Disk0
    /\ links = <<>>
    /\ client = NoClient
    /\ session = NoSession
    /\ \E n \in HistorySizes, i \in HistoryIntervals, o \in Origins :
          ac = [NewAircraft("7C79B7", n, i) EXCEPT !.origin = o]

\* Aircraft.update_position(alt, lat, lon, timestamp); accepted records the
\* samples handed to history.append.
AcUpdatePosition ==
    /\ Len(accepted) < MaxAccepted
    /\ \E pos \in Positions, timestamp \in 0..MaxTs :
         /\ ac' = UpdatePosition(ac, pos[1], pos[2], pos[3], timestamp)
         /\ accepted' = IF HistoryGate(ac, timestamp)
                        THEN Append(accepted, <<timestamp, pos[2], pos[3], pos[1]>>)
                        ELSE accepted
         /\ last' = [op |-> "update_position",
                     args |-> <<pos[1], pos[2], pos[3], timestamp>>]
    /\ UNCHANGED <<protoVars, clientVars, netVars, sessionVars, now, lifeVars>>
    /\ UNCHANGED <<archVars, envVars>>

\* A read of the property Aircraft.distance.
AcDistance ==
    /\ LET d == Distance(ac) IN
       /\ last' = [op |-> "distance", args |-> <<d.dist>>]
       /\ outcome' = IF d.raised THEN "raised" ELSE "ok"
    /\ UNCHANGED <<protoVars, clientVars, netVars, sessionVars, acVars, now,
                   client, session, cache_file, opened, archVars, envVars>>

NextAircraft == AcUpdatePosition \/ AcDistance

SpecAircraft == InitAircraft /\ [][NextAircraft]_vars

----------------------------------------------------------------------------
(* Claims about Aircraft.update_position (SpecAircraft). *)

\* The last n items of a sequence (all of it when it has fewer).
Tail_n(s, n) == IF Len(s) > n THEN SubSeq(s, Len(s) - n + 1, Len(s)) ELSE s

\* C9: an aircraft's history never holds more than its capacity N, and it is
\* always the most recent N accepted samples in the order they were accepted
\* (so the sample evicted from a full history is the oldest).
C9_HistoryIsMostRecentN ==
    /\ Len(ac.history) <= ac.maxlen
    /\ ac.history = Tail_n(accepted, ac.maxlen)

\* C9 witness: a capacity-2 history that took three samples and holds the
\* last two of them.
C9_Witness ==
    /\ ac.maxlen = 2
    /\ Len(accepted) = 3
    /\ accepted[1] # accepted[2]
    /\ ac.history = <<accepted[2], accepted[3]>>

\* C10: a position update whose timestamp is within the minimum interval of
\* the last history sample leaves the history unchanged and sets latitude,
\* longitude, altitude and last_seen to the values of the update.
C10_GatedUpdateSetsLiveFields ==
    [][ (/\ last'.op = "update_position"
         /\ ac.history # <<>>
         /\ ac.history_interval # None
         /\ last'.args[4] - Last(ac.history)[1] < ac.history_interval[1])
        => /\ ac'.history = ac.history
           /\ ac'.altitude = last'.args[1]
           /\ ac'.latitude = last'.args[2]
           /\ ac'.longitude = last'.args[3]
           /\ ac'.last_seen = Some(last'.args[4])
      ]_vars

\* C10 witness: an update one second after the only sample, under a
\* two second interval, changed the live position and left the history.
C10_Witness ==
    /\ last.op = "update_position"
    /\ ac.history_interval = Some(2)
    /\ Len(ac.history) = 1
    /\ ac.last_seen = Some(ac.history[1][1] + 1)
    /\ ac.latitude # ac.history[1][2]
    /\ ac.altitude # ac.history[1][4]

\* C11: with gating enabled and a non-empty history, update_position
\* appends the sample exactly when timestamp >= last sample timestamp +
\* interval, and otherwise leaves the history unchanged.
C11_AppendsWhenAtLeastInterval ==
    [][ (/\ last'.op = "update_position"
         /\ ac.history # <<>>
         /\ ac.history_interval # None)
        => LET alt == last'.args[1]
               lat == last'.args[2]
               lon == last'.args[3]
               timestamp == last'.args[4]
           IN  IF timestamp >= Last(ac.history)[1] + ac.history_interval[1]
               THEN ac'.history =
                      Tail_n(Append(ac.history, <<timestamp, lat, lon, alt>>), ac.maxlen)
               ELSE ac'.history = ac.history
      ]_vars

\* C12: an aircraft created with history capacity 0 retains every sample the
\* gate accepted and evicts none.
C12_CapacityZeroIsUnbounded ==
    ac.maxlen = 0 => ac.history = accepted

----------------------------------------------------------------------------
(* SpecLifecycle: the life of a Session, from its constructor to close()   *)
(* and to the next Session built on the cache file it left, and the life   *)
(* of a stand-alone Client. The clock advances by minutes.                 *)

\* Mutant of DiscardLostAircraft: an aircraft exactly as old as the
\* threshold is dropped too.
DiscardLostAircraft_AtThreshold(aircraft_dict, t, threshold) ==
    LET lost_aircraft == { h \in DOMAIN aircraft_dict :
                             t - aircraft_dict[h].last_seen[1] >= threshold }
    IN  [ h \in DOMAIN aircraft_dict \ lost_aircraft |-> aircraft_dict[h] ]

\* Mutant of DiscardLostAircraft: the sweep compares last_seen - now with
\* the threshold.
DiscardLostAircraft_Reversed(aircraft_dict, t, threshold) ==
    LET lost_aircraft == { h \in DOMAIN aircraft_dict :
                             aircraft_dict[h].last_seen[1] - t > threshold }
    IN  [ h \in DOMAIN aircraft_dict \ lost_aircraft |-> aircraft_dict[h] ]

\* Session.discard_lost_aircraft(aircraft_dict) at time t
DiscardLostAircraft(aircraft_dict, t, threshold) ==
    LET lost_aircraft == { h \in DOMAIN aircraft_dict :
                             t - aircraft_dict[h].last_seen[1] > threshold }
    IN  [ h \in DOMAIN aircraft_dict \ lost_aircraft |-> aircraft_dict[h] ]

\* Mutant of LoadAircraftCache: the snapshot is taken as it is.
LoadAircraftCache_Unfiltered(cached_aircraft, t, threshold) ==
    cached_aircraft

\* Session.load_aircraft_cache: the map of a Session built on a cache file
\* that holds cached_aircraft (the map is {} before the call).
LoadAircraftCache(cached_aircraft, t, threshold) ==
    LET kept == DiscardLostAircraft(cached_aircraft, t, threshold)
    IN  IF DOMAIN kept # {} THEN kept ELSE <<>>

\* The lines applied to the Session in this specification.
LifecycleLines == {LPosA, LVelB}

\* session_threshold_minutes of the Sessions built.
ThresholdMinutes == {1}

InitLifecycle ==
    /\ pconn = "none"
    /\ buf = None
    /\ rx = <<>>
    /\ cb_lines = <<>>
    /\ escaped = FALSE
    /\ archived = <<>>
    /\ raw_calls = <<>>
    /\ msg_calls = <<>>
    /\ wire = <<>>
    /\ sent = <<>>
    /\ aircraft = <<>>
    /\ now = 0
    /\ s_archiving = FALSE
    /\ s_archived = <<>>
    /\ accepted = <<>>
    /\ split_delim = FALSE
    /\ last = [op |-> "init", args |-> <<>>]
    /\ cache_file = None
    /\ opened = {}
    /\ outcome = "ok"
    /\ trace = <<>>
    /\ rolled = None
    /\ fresh = None
    /\ dropped = <<>>
    /\ disk_ok = TRUE
    /\ protocols = {}
    /\ applied = <<>>
    /\ clients = <<>>
    /\ attached = 0
    /\ call = "none"
    /\ running = None
    /\ links = <<>>
    /\ ac = DefaultAircraft
    /\ cfg = [raw_cb |-> "none", msg_cb |-> FALSE]
    /\ archiving_enabled = FALSE
    /\ handler = Handler0
    /\ disk = Disk0
    /\ client = NoClient
    /\ session = NoSession

\* Mutant of RecordFileMissing: the constructors do not test the record file.
RecordFileMissing_Never(record, record_file) == FALSE

\* The test of the constructors of Client and Session on their recording
\* arguments.
RecordFileMissing(record, record_file) == record /\ record_file = None

\* The (record, record_file) arguments the constructors are called with.
RecordingArgs == { <<FALSE, None>>, <<TRUE, None>>, <<TRUE, Some(RecordFile)>> }

\* Whether a Session object has the attribute session_file that its
\* constructor passes to start_recording: nothing assigns it.
HasSessionFileAttribute == FALSE

\* What every action of the Client's life leaves alone.
UnchangedByClient ==
    UNCHANGED <<rx, cb_lines, escaped, split_delim, archived, raw_calls,
                msg_calls, netVars, acVars, now, s_archived, archVars, envVars>>

\* Session(record, record_file, cache_enabled, cache_file,
\* session_threshold_minutes), in a process of its own.
NewSession ==
    /\ client.obj = "none"
    /\ session.obj \in {"none", "failed", "closed"}
    /\ \E recording \in RecordingArgs, cache_enabled \in BOOLEAN,
          minutes \in ThresholdMinutes :
         LET record == recording[1]
             record_file == recording[2]
             s0 == [NoSession EXCEPT !.record = record,
                                     !.record_file = record_file,
                                     !.cache_enabled = cache_enabled,
                                     !.expiry_threshold = 60 * minutes]
             raises == \/ RecordFileMissing(record, record_file)
                       \/ record /\ ~HasSessionFileAttribute
         IN  /\ session' = IF raises
                           THEN [s0 EXCEPT !.obj = "failed"]
                           ELSE [s0 EXCEPT !.obj = "built",
                                           !.monitor = "running",
                                           !.logfile = IF record THEN record_file ELSE None]
             /\ s_archiving' = (record /\ ~raises)
             /\ opened' = IF record /\ ~raises THEN opened \cup {record_file[1]} ELSE opened
             /\ aircraft' = IF ~raises /\ cache_enabled /\ cache_file # None
                            THEN LoadAircraftCache(cache_file[1], now, 60 * minutes)
                            ELSE <<>>
             /\ outcome' = IF raises THEN "raised" ELSE "ok"
             /\ last' = [op |-> "Session", args |-> <<record, record_file, cache_enabled, minutes>>]
    /\ UNCHANGED <<pconn, buf, cfg, archiving_enabled, client, cache_file>>
    /\ UnchangedByClient

\* One turn of Session.manage_session: discard_lost_aircraft(self.aircraft).
\* The task runs whenever the Session is not in a synchronous stretch.
SweepTurn ==
    /\ session.obj = "built"
    /\ session.monitor = "running"
    /\ session.pc \in {"idle", "connecting", "disconnecting"}
    /\ aircraft' = DiscardLostAircraft(aircraft, now, session.expiry_threshold)
    /\ last' = [op |-> "discard_lost_aircraft",
                args |-> <<DOMAIN aircraft \ DOMAIN aircraft'>>]
    /\ UNCHANGED <<protoVars, clientVars, netVars, acVars, now, s_archiving,
                   s_archived, lifeVars>>
    /\ UNCHANGED <<archVars, disk_ok, serverVars, connVars, running>>

Sweep == SweepTurn /\ UNCHANGED ghostVars

\* A minute passes.
TickMinute ==
    /\ now < 60 * MaxMinutes
    /\ now' = now + 60
    /\ last' = [op |-> "tick", args |-> <<>>]
    /\ UNCHANGED <<protoVars, clientVars, netVars, sessionVars, acVars, lifeVars>>
    /\ UNCHANGED <<archVars, envVars>>

\* The callbacks a stand-alone Client is built with.
StandaloneConfigs ==
    { [raw_cb |-> "none", msg_cb |-> TRUE], [raw_cb |-> "user", msg_cb |-> FALSE] }

\* Client(on_raw_msg_callback, on_msg_callback, record, record_file)
NewClient ==
    /\ session.obj = "none"
    /\ client.obj \in {"none", "failed"}
    /\ \E recording \in RecordingArgs, callbacks \in StandaloneConfigs :
         LET record == recording[1]
             record_file == recording[2]
             raises == RecordFileMissing(record, record_file) IN
         /\ client' = [NoClient EXCEPT !.obj = IF raises THEN "failed" ELSE "built",
                                       !.record = record,
                                       !.record_file = IF raises THEN None ELSE record_file]
         /\ cfg' = callbacks
         /\ outcome' = IF raises THEN "raised" ELSE "ok"
         /\ last' = [op |-> "Client", args |-> <<record, record_file>>]
    /\ archiving_enabled' = FALSE
    /\ UNCHANGED <<pconn, buf, sessionVars, session, cache_file, opened>>
    /\ UnchangedByClient

\* Client.start up to its await of the connection: the test of
\* self.protocol, start_recording, and connect() creating the protocol.
StartOf(c) ==
    IF c.protocol
    THEN [client |-> c, raised |-> TRUE]
    ELSE [client |-> [c EXCEPT !.logfile = IF c.record /\ c.logfile = None
                                           THEN c.record_file ELSE @,
                               !.protocol = TRUE,
                               !.pc = "connecting"],
          raised |-> FALSE]

\* Mutant of ClientStart: a start() on a client that has a protocol replaces
\* the protocol and connects again.
ClientStart_Again ==
    /\ session.obj = "none"
    /\ client.obj = "built"
    /\ client.pc = "idle"
    /\ client' = [client EXCEPT !.logfile = IF client.record THEN client.record_file ELSE @,
                                !.protocol = TRUE,
                                !.pc = "connecting"]
    /\ archiving_enabled' = (archiving_enabled \/ client.record)
    /\ opened' = IF client.record /\ ~archiving_enabled
                 THEN opened \cup {client.record_file[1]} ELSE opened
    /\ pconn' = "created"
    /\ buf' = None
    /\ outcome' = "pending"
    /\ last' = [op |-> "start", args |-> <<>>]
    /\ UNCHANGED <<cfg, sessionVars, session, cache_file>>
    /\ UnchangedByClient

\* Client.start() called on a stand-alone Client.
ClientStart ==
    /\ session.obj = "none"
    /\ client.obj = "built"
    /\ client.pc = "idle"
    /\ LET r == StartOf(client) IN
       /\ client' = r.client
       /\ archiving_enabled' = IF r.raised THEN archiving_enabled
                               ELSE (archiving_enabled \/ client.record)
       /\ opened' = IF ~r.raised /\ client.record /\ ~archiving_enabled
                    THEN opened \cup {client.record_file[1]} ELSE opened
       /\ pconn' = IF r.raised THEN pconn ELSE "created"
       /\ buf' = IF r.raised THEN buf ELSE None
       /\ outcome' = IF r.raised THEN "raised" ELSE "pending"
    /\ last' = [op |-> "start", args |-> <<>>]
    /\ UNCHANGED <<cfg, sessionVars, session, cache_file>>
    /\ UnchangedByClient

\* create_connection succeeds: SBSProtocol.connection_made is called and the
\* awaiting start() (or Session.connect()) returns.
ConnectionMade ==
    /\ client.pc = "connecting"
    /\ pconn = "created"
    /\ pconn' = "connected"
    /\ buf' = Some(<<>>)
    /\ client' = [client EXCEPT !.pc = "idle"]
    /\ session' = IF session.pc = "connecting" THEN [session EXCEPT !.pc = "idle"] ELSE session
    /\ outcome' = "ok"
    /\ last' = [op |-> "connection_made", args |-> <<>>]
    /\ UNCHANGED <<cfg, archiving_enabled, sessionVars, cache_file, opened>>
    /\ UnchangedByClient

\* create_connection fails (refused, timed out): the exception leaves
\* connect() and start(); self.protocol keeps the protocol connect() made.
ConnectionRefused ==
    /\ client.pc = "connecting"
    /\ pconn = "created"
    /\ client' = [client EXCEPT !.pc = "idle"]
    /\ session' = IF session.pc = "connecting" THEN [session EXCEPT !.pc = "idle"] ELSE session
    /\ outcome' = "raised"
    /\ last' = [op |-> "connection_refused", args |-> <<>>]
    /\ UNCHANGED <<pconn, buf, cfg, archiving_enabled, sessionVars, cache_file, opened>>
    /\ UnchangedByClient

\* Client.stop up to its await of wait_closed: stop_recording, then
\* disconnect() closing the protocol if there is one (SBSProtocol.close
\* aborts the transport if there is one).
StopOf(c) ==
    [c EXCEPT !.logfile = None,
              !.pc = IF c.protocol THEN "disconnecting" ELSE "idle"]

\* Client.stop() called on a stand-alone Client.
ClientStop ==
    /\ session.obj = "none"
    /\ client.obj = "built"
    /\ client.pc = "idle"
    /\ client' = StopOf(client)
    /\ archiving_enabled' = FALSE
    /\ outcome' = IF client.protocol THEN "pending" ELSE "ok"
    /\ last' = [op |-> "stop", args |-> <<>>]
    /\ UNCHANGED <<pconn, buf, cfg, sessionVars, session, cache_file, opened>>
    /\ UnchangedByClient

\* Mutant of StopDone: disconnect() keeps the protocol.
StopDone_KeepProtocol ==
    /\ client.pc = "disconnecting"
    /\ pconn = "lost"
    /\ client' = [client EXCEPT !.pc = "idle"]
    /\ outcome' = IF session.obj = "none" THEN "ok" ELSE outcome
    /\ last' = [op |-> "stopped", args |-> <<>>]
    /\ UNCHANGED <<pconn, buf, cfg, archiving_enabled, sessionVars, session, cache_file, opened>>
    /\ UnchangedByClient

\* wait_closed is done (connection_lost was called): disconnect() sets
\* self.protocol to None and stop() returns.
StopDone ==
    /\ client.pc = "disconnecting"
    /\ pconn = "lost"
    /\ pconn' = "none"
    /\ client' = [client EXCEPT !.pc = "idle", !.protocol = FALSE]
    /\ outcome' = IF session.obj = "none" THEN "ok" ELSE outcome
    /\ last' = [op |-> "stopped", args |-> <<>>]
    /\ UNCHANGED <<buf, cfg, archiving_enabled, sessionVars, session, cache_file, opened>>
    /\ UnchangedByClient

\* Session.connect: a Client with the Session's raw-message callback is
\* built and started.
SessionConnect ==
    /\ session.obj = "built"
    /\ session.pc = "idle"
    /\ client.obj = "none"
    /\ client' = StartOf([NoClient EXCEPT !.obj = "built"]).client
    /\ session' = [session EXCEPT !.client = TRUE, !.pc = "connecting"]
    /\ cfg' = [raw_cb |-> "session", msg_cb |-> FALSE]
    /\ archiving_enabled' = FALSE
    /\ pconn' = "created"
    /\ buf' = None
    /\ outcome' = "pending"
    /\ last' = [op |-> "connect", args |-> <<>>]
    /\ UNCHANGED <<sessionVars, cache_file, opened>>
    /\ UnchangedByClient

\* Session.close up to the await in disconnect(): with a client,
\* client.stop() is called and awaited; without one, disconnect() returns at
\* once.
SessionClose ==
    /\ session.obj = "built"
    /\ session.pc = "idle"
    /\ IF session.client
       THEN /\ client' = StopOf(client)
            /\ session' = [session EXCEPT !.pc = "disconnecting"]
       ELSE /\ client' = client
            /\ session' = [session EXCEPT !.pc = "stop_recording"]
    /\ archiving_enabled' = FALSE
    /\ outcome' = "pending"
    /\ last' = [op |-> "close", args |-> <<>>]
    /\ UNCHANGED <<pconn, buf, cfg, sessionVars, cache_file, opened>>
    /\ UnchangedByClient

\* Session.disconnect after client.stop() returned: self.client = None.
CloseDisconnected ==
    /\ session.pc = "disconnecting"
    /\ client.pc = "idle"
    /\ client' = NoClient
    /\ session' = [session EXCEPT !.client = FALSE, !.pc = "stop_recording"]
    /\ last' = [op |-> "close", args |-> <<"disconnected">>]
    /\ UNCHANGED <<pconn, buf, cfg, archiving_enabled, sessionVars, cache_file, opened, outcome>>
    /\ UnchangedByClient

\* Session.close: self.stop_recording()
CloseStopRecording ==
    /\ session.pc = "stop_recording"
    /\ s_archiving' = FALSE
    /\ session' = [session EXCEPT !.logfile = None, !.pc = "save"]
    /\ last' = [op |-> "close", args |-> <<"stop_recording">>]
    /\ UNCHANGED <<pconn, buf, cfg, archiving_enabled, aircraft, client, cache_file, opened, outcome>>
    /\ UnchangedByClient

\* Session.close: the aircraft map is pickled into the cache file.
CloseSave ==
    /\ session.pc = "save"
    /\ cache_file' = IF session.cache_enabled THEN Some(aircraft) ELSE cache_file
    /\ session' = [session EXCEPT !.pc = "cancel"]
    /\ last' = [op |-> "close", args |-> <<"save">>]
    /\ UNCHANGED <<pconn, buf, cfg, archiving_enabled, aircraft, s_archiving, client, opened, outcome>>
    /\ UnchangedByClient

\* Session.close: self.session_monitor_task.cancel(), and close() returns.
CloseCancel ==
    /\ session.pc = "cancel"
    /\ session' = [session EXCEPT !.monitor = "cancelled", !.obj = "closed", !.pc = "idle"]
    /\ outcome' = "ok"
    /\ last' = [op |-> "close", args |-> <<"cancel">>]
    /\ UNCHANGED <<pconn, buf, cfg, archiving_enabled, aircraft, s_archiving, client, cache_file, opened>>
    /\ UnchangedByClient

SessionMessageLifecycle == SessionMessageOf(LifecycleLines)

NextLifecycle ==
    \/ NewSession \/ SessionMessageLifecycle \/ TickMinute \/ Sweep
    \/ SessionConnect \/ SessionClose \/ CloseDisconnected
    \/ CloseStopRecording \/ CloseSave \/ CloseCancel
    \/ NewClient \/ ClientStart \/ ConnectionMade \/ ConnectionRefused
    \/ ConnectionLost \/ ClientStop \/ StopDone

SpecLifecycle == InitLifecycle /\ [][NextLifecycle]_vars

----------------------------------------------------------------------------
(* Claims about the life of a Session and of a Client (SpecLifecycle). *)

\* The age of a record at the present time.
Age(a) == now - a.last_seen[1]

\* C13: after an expiry sweep with threshold T every aircraft whose age at
\* the time of the sweep is greater than T is absent from the map, and every
\* other aircraft is present with its record unchanged.
C13_SweepDropsExactlyTheExpired ==
    [][ last'.op = "discard_lost_aircraft" =>
          /\ DOMAIN aircraft' \subseteq DOMAIN aircraft
          /\ \A h \in DOMAIN aircraft :
               IF Age(aircraft[h]) > session.expiry_threshold
               THEN h \notin DOMAIN aircraft'
               ELSE h \in DOMAIN aircraft' /\ aircraft'[h] = aircraft[h]
      ]_vars

\* C13 witness: a sweep dropped 7C79B7 and kept A1B2C3, whose age is
\* exactly the threshold.
C13_Witness ==
    /\ last = [op |-> "discard_lost_aircraft", args |-> <<{HexA}>>]
    /\ HexA \notin DOMAIN aircraft
    /\ HexB \in DOMAIN aircraft
    /\ Age(aircraft[HexB]) = session.expiry_threshold

\* C14: the map of a Session constructed on a cache file holds no aircraft
\* of the snapshot whose last_seen was older than the expiry threshold at
\* construction time, holds every other aircraft of the snapshot as the
\* snapshot has it, and holds nothing else.
C14_RestoreFiltersTheSnapshot ==
    [][ (/\ last'.op = "Session"
         /\ session'.obj = "built"
         /\ session'.cache_enabled
         /\ cache_file # None)
        => /\ DOMAIN aircraft' \subseteq DOMAIN cache_file[1]
           /\ \A h \in DOMAIN cache_file[1] :
                IF Age(cache_file[1][h]) > session'.expiry_threshold
                THEN h \notin DOMAIN aircraft'
                ELSE h \in DOMAIN aircraft' /\ aircraft'[h] = cache_file[1][h]
      ]_vars

\* C14 witness: a Session was built on a snapshot that holds 7C79B7, expired
\* by now, and A1B2C3, which is not: its map holds A1B2C3 only.
C14_Witness ==
    /\ last.op = "Session"
    /\ session.obj = "built"
    /\ session.cache_enabled
    /\ cache_file # None
    /\ DOMAIN cache_file[1] = {HexA, HexB}
    /\ Age(cache_file[1][HexA]) > session.expiry_threshold
    /\ DOMAIN aircraft = {HexB}
    /\ aircraft[HexB] = cache_file[1][HexB]

\* C15: in Session.close(), when the final snapshot of the map has been
\* persisted the client has been stopped and the sweep task has been
\* cancelled.
C15_StoppedAndCancelledBeforeSave ==
    (session.pc = "cancel" /\ session.cache_enabled)
        => /\ ~session.client
           /\ session.monitor = "cancelled"

\* C16: start() on a Client that is already started raises an error and
\* changes nothing: the protocol and its connection, the recording state and
\* the callbacks are as before the call.
C16_StartWhenStartedRaises ==
    [][ (last'.op = "start" /\ client.protocol /\ pconn \in {"connected", "lost"})
        => /\ outcome' = "raised"
           /\ client' = client
           /\ pconn' = pconn
           /\ buf' = buf
           /\ archiving_enabled' = archiving_enabled
           /\ opened' = opened
           /\ cfg' = cfg
      ]_vars

\* C16 witness: start() was called on a connected, recording Client and
\* raised.
C16_Witness ==
    /\ last.op = "start"
    /\ outcome = "raised"
    /\ pconn = "connected"
    /\ client.protocol
    /\ archiving_enabled
    /\ client.logfile = Some(RecordFile)

\* C17: stop() on a Client that has no protocol (never started, or stopped)
\* returns without an error and changes nothing; and when a stop() that
\* follows a successful start() returns, the Client has no protocol, records
\* nothing, has no open logfile, and a start() would be accepted.
C17_StopIsIdempotent ==
    [][ /\ (last'.op = "stop" /\ ~client.protocol)
           => /\ outcome' = "ok"
              /\ client' = client
              /\ pconn' = pconn
              /\ buf' = buf
              /\ archiving_enabled' = archiving_enabled
              /\ opened' = opened
        /\ (last'.op = "stopped" /\ session.obj = "none")
           => /\ outcome' = "ok"
              /\ ~client'.protocol
              /\ client'.pc = "idle"
              /\ ~archiving_enabled'
              /\ client'.logfile = None
              /\ ~StartOf(client').raised
      ]_vars

\* C17 witness: a Client that had been started with recording and then
\* stopped was stopped again, and the call returned.
C17_Witness ==
    /\ last.op = "stop"
    /\ outcome = "ok"
    /\ client.obj = "built"
    /\ ~client.protocol
    /\ opened = {RecordFile}
    /\ ~archiving_enabled

\* C18: when the connection attempt of start() is refused the error is
\* raised to the caller, no further attempt is under way, and the Client is
\* in the not-started state: it has no protocol, so that a later start() is
\* accepted.
C18_RefusedStartLeavesNotStarted ==
    (last.op = "connection_refused" /\ session.obj = "none")
        => /\ outcome = "raised"
           /\ client.pc = "idle"
           /\ ~client.protocol
           /\ ~StartOf(client).raised

\* C19: constructing a Client or a Session with record=True and no record
\* file raises, and no archive file has been opened, no connection made and
\* no sweep task started by the call.
C19_RecordWithoutFileFailsFast ==
    [][ (/\ last'.op \in {"Client", "Session"}
         /\ last'.args[1] = TRUE
         /\ last'.args[2] = None)
        => /\ outcome' = "raised"
           /\ opened' = opened
           /\ pconn' = pconn
           /\ ~client'.protocol
           /\ ~archiving_enabled'
           /\ ~s_archiving'
           /\ last'.op = "Client"
                => /\ client'.obj = "failed"
                   /\ client'.logfile = None
           /\ last'.op = "Session"
                => /\ session'.obj = "failed"
                   /\ session'.logfile = None
                   /\ session'.monitor = "none"
                   /\ ~session'.client
                   /\ aircraft' = <<>>
      ]_vars

\* C19 witness: a Session was constructed with record=True, no record file
\* and the cache enabled, while a cache file with an aircraft was on disk;
\* the constructor raised.
C19_Witness ==
    /\ last.op = "Session"
    /\ last.args[1] = TRUE
    /\ last.args[2] = None
    /\ last.args[3] = TRUE
    /\ cache_file # None
    /\ DOMAIN cache_file[1] # {}
    /\ outcome = "raised"
    /\ session.obj = "failed"

\* C20: constructing a Session with record=True and a record file succeeds
\* and leaves the Session recording, with its one archive sink open on that
\* file.
C20_RecordingSessionIsBuilt ==
    (/\ last.op = "Session"
     /\ last.args[1] = TRUE
     /\ last.args[2] # None)
        => /\ outcome = "ok"
           /\ session.obj = "built"
           /\ s_archiving
           /\ session.logfile = last.args[2]
           /\ last.args[2][1] \in opened


----------------------------------------------------------------------------
(* SpecArchive: a started Client that records to a fresh record file, with *)
(* the archive configured as start_recording(record_file, maxBytes,        *)
(* backupCount) allows, receives whole text lines while the file system    *)
(* may fail; the handler may be closed directly.                           *)

MaxRecords == 4     \* lines the recording Client receives (SpecArchive)

ArchiveLines == {LPosA, LShort}

\* With records of 57 and 38 characters: no rollover, a rollover at every
\* record or every other one, a rollover at every second or third record.
ArchiveMaxBytes == {0, 60, 100}

BackupCounts == {0, 1, 2}

InitArchive ==
    /\ InitCommon
    /\ ac = DefaultAircraft
    /\ cfg \in {[raw_cb |-> "user", msg_cb |-> TRUE], [raw_cb |-> "none", msg_cb |-> TRUE]}
    /\ archiving_enabled = TRUE
    /\ \E m \in ArchiveMaxBytes, k \in BackupCounts : handler = Some(NewHandler(m, k))
    /\ disk = Open(NoFiles)
    /\ links = <<>>
    /\ client = StartedClient(TRUE)
    /\ session = NoSession

\* The transport hands the protocol one line and its delimiter.
ArchiveReceive ==
    /\ Len(cb_lines) < MaxRecords
    /\ \E line \in ArchiveLines : DataReceived(line \o DELIMITER)
    /\ UNCHANGED netVars

\* The file system starts to fail (disk full, directory removed).
DiskFails ==
    /\ disk_ok
    /\ disk_ok' = FALSE
    /\ UNCHANGED <<protoVars, clientVars, netVars, sessionVars, acVars, now,
                   last, lifeVars, archVars, serverVars, ghostVars, connVars,
                   running>>

\* The file system works again.
DiskRecovers ==
    /\ ~disk_ok
    /\ disk_ok' = TRUE
    /\ UNCHANGED <<protoVars, clientVars, netVars, sessionVars, acVars, now,
                   last, lifeVars, archVars, serverVars, ghostVars, connVars,
                   running>>

\* RotatingArchiveFileHandler.close() called on the Client's logfile.
HandlerClose ==
    /\ handler # None
    /\ handler[1].stream
    /\ handler' = Some([handler[1] EXCEPT !.stream = FALSE])
    /\ UNCHANGED <<protoVars, clientVars, netVars, sessionVars, acVars, now,
                   last, lifeVars, disk, trace, rolled, fresh, dropped, envVars>>

\* Client.stop(): stop_recording() closes and forgets the logfile, then
\* disconnect() aborts the transport, after which no data is received.
ArchiveStop ==
    /\ pconn = "connected"
    /\ archiving_enabled
    /\ archiving_enabled' = FALSE
    /\ handler' = None
    /\ pconn' = "lost"
    /\ buf' = None
    /\ client' = [client EXCEPT !.logfile = None, !.protocol = FALSE]
    /\ UNCHANGED <<rx, cb_lines, escaped, split_delim, cfg, archived, raw_calls,
                   msg_calls, netVars, sessionVars, acVars, now, last, session,
                   cache_file, opened, outcome, disk, trace, rolled, fresh,
                   dropped, envVars>>

NextArchive ==
    ArchiveReceive \/ DiskFails \/ DiskRecovers \/ HandlerClose \/ ArchiveStop

SpecArchive == InitArchive /\ [][NextArchive]_vars

\* The messages of the records of a file, in order.
MsgsOf(file) == [i \in 1..Len(file) |-> file[i].msg]

\* C21: when a recording Client has received N lines and no record was
\* lost (no rollover, no failed write, no emit on a closed handler), while
\* it records and after it is stopped, the record file holds exactly N
\* records, one per line in arrival order, each the time of its arrival
\* followed by the line as received.
C21_ArchiveHoldsEveryLine ==
    (rolled = None /\ dropped = <<>>) =>
        /\ disk[0] # None
        /\ MsgsOf(disk[0][1]) = cb_lines
        /\ \A i \in 1..Len(disk[0][1]) : disk[0][1][i].timestamp = now

C21_Witness ==
    /\ rolled = None /\ dropped = <<>>
    /\ ~archiving_enabled /\ pconn = "lost"
    /\ cb_lines = <<LPosA, LShort, LPosA>>
    /\ Len(disk[0][1]) = 3

\* C22: emit never raises.  On every line a recording Client receives no
\* exception leaves data_received, whether the write or the rollover fails
\* or the handler is closed; the line still reaches the raw callback and,
\* parsed, the parsed callback; and an emit on a closed handler leaves the
\* directory as it was.
C22_EmitNeverRaises ==
    [][ (cb_lines' # cb_lines /\ archiving_enabled) =>
          LET line == Last(cb_lines') IN
          /\ escaped' = FALSE
          /\ archived' = Append(archived, line)
          /\ cfg.raw_cb # "none" => raw_calls' = Append(raw_calls, line)
          /\ (cfg.msg_cb /\ WellFormed(line)) =>
                msg_calls' = Append(msg_calls, fromString(line).msg)
          /\ ~handler[1].stream => (disk' = disk /\ dropped' = Append(dropped, line))
          /\ ~disk_ok => disk' = disk
      ]_vars

C22_Witness ==
    /\ Len(dropped) >= 2
    /\ handler # None /\ ~handler[1].stream
    /\ ~disk_ok
    /\ cfg.raw_cb = "user"
    /\ raw_calls = cb_lines
    /\ Len(msg_calls) >= 2
    /\ \E i \in 1..Len(dropped) : fromString(dropped[i]).ok

\* C23: a handler with backup count K keeps no backup with an index above
\* K, and its last rollover, for K >= 1, made the base file the backup 1,
\* every backup i < K the backup i + 1, and dropped the former backup K,
\* whose place the former backup K - 1 has taken.
C23_RolloverShiftsBackups ==
    handler # None =>
        LET K == handler[1].backupCount IN
        /\ \A i \in FileIndexes : i > K => disk[i] = None
        /\ (rolled # None /\ K >= 1) =>
              LET b == rolled[1].before
                  a == rolled[1].after
              IN  /\ b[0] # None
                  /\ a[1] = b[0]
                  /\ \A i \in 1..(K - 1) : b[i] # None => a[i + 1] = b[i]
                  /\ b[K] # None => a[K] = b[K - 1]
                  /\ \A i \in FileIndexes : i > K => a[i] = None

C23_Witness ==
    /\ handler # None /\ handler[1].backupCount = 2
    /\ rolled # None
    /\ rolled[1].before[2] # None
    /\ rolled[1].after[2] = rolled[1].before[1]
    /\ rolled[1].after[2] # rolled[1].before[2]

\* C24: after a rollover, for every backup count, the base file was empty
\* when it was opened again: it holds the records written since that
\* rollover and no other.
C24_CurrentFileEmptyAfterRollover ==
    (handler # None /\ fresh # None) => disk[0] = fresh

\* C30: for each line the Client archives it, then calls the raw callback,
\* then the parsed callback, and every step of a line comes before every
\* step of the next line: the steps taken are ordered by line and, within a
\* line, as archive, raw, parsed; each line received while recording has
\* its archive step, and its raw step when a raw callback is set.
StepRank(step) == CASE step = "archive" -> 1 [] step = "raw" -> 2 [] step = "parsed" -> 3

C30_ArchiveThenRawThenParsed ==
    /\ \A i, j \in 1..Len(trace) :
          i < j => \/ trace[i].n < trace[j].n
                   \/ /\ trace[i].n = trace[j].n
                      /\ StepRank(trace[i].step) < StepRank(trace[j].step)
    /\ \A n \in 1..Len(cb_lines) :
          /\ \E i \in 1..Len(trace) : trace[i] = [step |-> "archive", n |-> n]
          /\ cfg.raw_cb # "none" <=>
                \E i \in 1..Len(trace) : trace[i] = [step |-> "raw", n |-> n]
          /\ (cfg.msg_cb /\ WellFormed(cb_lines[n])) <=>
                \E i \in 1..Len(trace) : trace[i] = [step |-> "parsed", n |-> n]

C30_Witness ==
    /\ Len(trace) = 5
    /\ cb_lines = <<LPosA, LShort>>
    /\ trace[3].step = "parsed" /\ trace[4].step = "archive"


----------------------------------------------------------------------------
(* Server and SBSServerProtocol (adsb/sbs/server.py, protocol.py).  A peer *)
(* is the (host, port) of a client's socket, the key of Server.protocols;  *)
(* the SBSServerProtocol of a connection is identified with its peer.      *)

\* Server.register_protocol(peer, prot)
RegisterProtocol(registry, peer) == registry \cup {peer}

\* Mutant of DeregisterProtocol: the entry is left in the registry.
DeregisterProtocol_Keep(registry, peer) == registry

\* Server.deregister_protocol(peer)
DeregisterProtocol(registry, peer) == registry \ {peer}

\* Mutant of SendTargets: a peer that is not registered is skipped silently.
SendTargets_SkipUnknown(registry, peer) ==
    IF registry # {}
    THEN IF peer # None
         THEN [raised |-> FALSE, targets |-> registry \cap {peer[1]}]
         ELSE [raised |-> FALSE, targets |-> registry]
    ELSE [raised |-> TRUE, targets |-> {}]

\* Mutant of SendTargets: the peer argument is ignored once it is known.
SendTargets_Broadcast(registry, peer) ==
    IF registry # {}
    THEN IF peer # None /\ peer[1] \notin registry
         THEN [raised |-> TRUE, targets |-> {}]
         ELSE [raised |-> FALSE, targets |-> registry]
    ELSE [raised |-> TRUE, targets |-> {}]

\* Server.send_message(msg, peer): whether it raises, and the protocols
\* whose send_message it calls.
SendTargets(registry, peer) ==
    IF registry # {}
    THEN IF peer # None
         THEN IF peer[1] \in registry
              THEN [raised |-> FALSE, targets |-> {peer[1]}]
              ELSE [raised |-> TRUE, targets |-> {}]
         ELSE [raised |-> FALSE, targets |-> registry]
    ELSE [raised |-> TRUE, targets |-> {}]

\* SBSServerProtocol.send_message(data): transport.write(data).
TransportWrite(conn, targets, data) ==
    [p \in DOMAIN conn |->
        IF p \in targets THEN [conn[p] EXCEPT !.written = Append(@, data)] ELSE conn[p]]

----------------------------------------------------------------------------
(* SpecServer: a started Server; clients connect and disconnect, the event *)
(* loop calls connection_made and connection_lost, the Server sends and    *)
(* is stopped.                                                             *)

MaxSends == 2       \* calls of Server.send_message (SpecServer)
MaxConnects == 1    \* connections each client makes (SpecServer)

Peers == {"peer1", "peer2"}

\* The peer arguments of send_message: none, a client, or no client at all.
PeerArgs == {None} \cup {Some(p) : p \in Peers \cup {"invalid"}}

TEST_MSG == LPosA \o DELIMITER

\* A connection of a peer as the server's event loop sees it: "idle" (no
\* socket), "accepted" (connected, connection_made not yet called), "made",
\* "lost"; whether the client's end is open; whether the server aborted the
\* transport; the data passed to transport.write, over all its connections.
NoLink == [state |-> "idle", client_open |-> FALSE, aborted |-> FALSE,
           written |-> <<>>, n |-> 0]

InitServer ==
    /\ InitCommon
    /\ ac = DefaultAircraft
    /\ cfg = [raw_cb |-> "none", msg_cb |-> TRUE]
    /\ archiving_enabled = FALSE
    /\ handler = Handler0
    /\ disk = Disk0
    /\ links = [listening |-> TRUE, conn |-> [p \in Peers |-> NoLink]]
    /\ client = NoClient
    /\ session = NoSession

UnchangedByServer ==
    UNCHANGED <<protoVars, clientVars, netVars, sessionVars, acVars, now,
                client, session, cache_file, opened, archVars, disk_ok,
                ghostVars, connVars, running>>

\* A client's create_connection succeeds: the listener accepts its socket.
PeerConnects ==
    /\ links.listening
    /\ \E p \in Peers :
         /\ links.conn[p].state \in {"idle", "lost"}
         /\ links.conn[p].n < MaxConnects
         /\ links' = [links EXCEPT !.conn[p] =
                         [@ EXCEPT !.state = "accepted", !.client_open = TRUE,
                                   !.aborted = FALSE, !.n = @ + 1]]
         /\ last' = [op |-> "connect", args |-> <<p>>]
    /\ UNCHANGED <<protocols, outcome>>
    /\ UnchangedByServer

\* SBSServerProtocol.connection_made
ServerConnectionMade(p) ==
    /\ links.conn[p].state = "accepted"
    /\ links' = [links EXCEPT !.conn[p].state = "made"]
    /\ protocols' = RegisterProtocol(protocols, p)
    /\ last' = [op |-> "connection_made", args |-> <<p>>]
    /\ UNCHANGED outcome
    /\ UnchangedByServer

\* The client stops: its transport is aborted.
PeerDisconnects ==
    /\ \E p \in Peers :
         /\ links.conn[p].client_open
         /\ links' = [links EXCEPT !.conn[p].client_open = FALSE]
         /\ last' = [op |-> "disconnect", args |-> <<p>>]
    /\ UNCHANGED <<protocols, outcome>>
    /\ UnchangedByServer

\* SBSServerProtocol.connection_lost, called once the connection that was
\* made is closed by the client or aborted by the server.
ServerConnectionLost(p) ==
    /\ links.conn[p].state = "made"
    /\ ~links.conn[p].client_open \/ links.conn[p].aborted
    /\ links' = [links EXCEPT !.conn[p].state = "lost", !.conn[p].client_open = FALSE]
    /\ protocols' = DeregisterProtocol(protocols, p)
    /\ last' = [op |-> "connection_lost", args |-> <<p>>]
    /\ UNCHANGED outcome
    /\ UnchangedByServer

\* Server.send_message(msg, peer)
ServerSendMessage ==
    /\ Len(sent) < MaxSends
    /\ \E peer \in PeerArgs :
         LET r == SendTargets(protocols, peer) IN
         /\ links' = [links EXCEPT !.conn = TransportWrite(@, r.targets, TEST_MSG)]
         /\ outcome' = IF r.raised THEN "raised" ELSE "ok"
         /\ last' = [op |-> "send_message", args |-> <<TEST_MSG, peer>>]
    /\ sent' = Append(sent, TEST_MSG)
    /\ UNCHANGED <<protocols, wire>>
    /\ UNCHANGED <<protoVars, clientVars, sessionVars, acVars, now,
                   client, session, cache_file, opened, archVars, disk_ok,
                ghostVars, connVars, running>>

\* Server.stop(): every registered protocol is closed (its transport
\* aborted) and the listener is closed.
ServerStop ==
    /\ links.listening
    /\ links' = [links EXCEPT
                    !.listening = FALSE,
                    !.conn = [p \in Peers |->
                                 IF p \in protocols
                                 THEN [links.conn[p] EXCEPT !.aborted = TRUE]
                                 ELSE links.conn[p]]]
    /\ last' = [op |-> "stop", args |-> <<>>]
    /\ UNCHANGED <<protocols, outcome>>
    /\ UnchangedByServer

NextServer ==
    \/ PeerConnects
    \/ PeerDisconnects
    \/ \E p \in Peers : ServerConnectionMade(p)
    \/ \E p \in Peers : ServerConnectionLost(p)
    \/ ServerSendMessage
    \/ ServerStop

SpecServer == InitServer /\ [][NextServer]_vars

\* The event loop runs the callbacks that are due.
SpecServerFair ==
    /\ SpecServer
    /\ \A p \in Peers : WF_vars(ServerConnectionMade(p))
    /\ \A p \in Peers : WF_vars(ServerConnectionLost(p))

\* The data passed to each peer's transport.
Written(l) == [p \in Peers |-> l.conn[p].written]

\* C25: send_message raises and writes to no transport when no peer is
\* registered, and when the peer it names is not registered although
\* others are.
C25_SendWithoutTargetRaises ==
    [][ last'.op = "send_message" =>
          LET peer == last'.args[2] IN
          /\ protocols = {} =>
                (outcome' = "raised" /\ Written(links') = Written(links))
          /\ (peer # None /\ peer[1] \notin protocols) =>
                (outcome' = "raised" /\ Written(links') = Written(links))
      ]_vars

C25_Witness ==
    /\ last.op = "send_message"
    /\ last.args[2] = Some("peer2")
    /\ protocols = {"peer1"}
    /\ outcome = "raised"
    /\ Len(sent) = 2
    /\ Written(links) = [p \in Peers |-> <<>>]

\* C26: with peers registered, send_message without a peer writes the
\* message exactly once to the transport of every registered peer and to
\* no other; naming a registered peer, it writes the message exactly once
\* to that peer's transport and to no other.
C26_SendReachesExactlyItsTargets ==
    [][ (last'.op = "send_message" /\ protocols # {}) =>
          LET peer == last'.args[2]
              msg == last'.args[1]
          IN  /\ peer = None =>
                    /\ outcome' = "ok"
                    /\ \A p \in Peers :
                          Written(links')[p] =
                              IF p \in protocols THEN Append(Written(links)[p], msg)
                                                 ELSE Written(links)[p]
              /\ (peer # None /\ peer[1] \in protocols) =>
                    /\ outcome' = "ok"
                    /\ \A p \in Peers :
                          Written(links')[p] =
                              IF p = peer[1] THEN Append(Written(links)[p], msg)
                                             ELSE Written(links)[p]
      ]_vars

C26_Witness ==
    /\ last.op = "send_message"
    /\ last.args[2] = None
    /\ protocols = Peers
    /\ outcome = "ok"
    /\ Written(links) = ("peer1" :> <<TEST_MSG, TEST_MSG>>) @@ ("peer2" :> <<TEST_MSG>>)

\* Every client has stopped.
AllStopped == \A p \in Peers : ~links.conn[p].client_open

\* C27: the registry holds exactly the peers whose connection has been
\* made and not yet lost; connection_made adds the entry of its peer,
\* connection_lost removes the entry of its peer and nothing else changes
\* the registry; and once all clients have stopped for good the registry
\* becomes empty and stays empty.
C27_RegistryIsTheLiveConnections ==
    /\ [](protocols = {p \in Peers : links.conn[p].state = "made"})
    /\ [][ /\ last'.op = "connection_made" =>
                 /\ last'.args[1] \notin protocols
                 /\ protocols' = protocols \cup {last'.args[1]}
           /\ last'.op = "connection_lost" =>
                 /\ last'.args[1] \in protocols
                 /\ protocols' = protocols \ {last'.args[1]}
           /\ last'.op \notin {"connection_made", "connection_lost"} =>
                 protocols' = protocols
         ]_vars
    /\ (<>[]AllStopped) => <>[](protocols = {})

C27_Witness ==
    /\ protocols = {"peer2"}
    /\ links.conn["peer1"].state = "lost"
    /\ links.conn["peer2"].state = "made"
    /\ ~links.conn["peer2"].client_open


----------------------------------------------------------------------------
(* Claims about Aircraft.distance (SpecAircraft). *)

\* C28: a read of distance returns None without raising whenever the
\* origin, the latitude or the longitude of the aircraft is unset, and
\* returns a distance only when the origin and the position are both set.
C28_DistanceIsNullWhenUnset ==
    last.op = "distance" =>
        /\ (ac.origin = None \/ ac.origin = Some(<<None, None>>)
              \/ ac.latitude = None \/ ac.longitude = None)
              => (outcome = "ok" /\ last.args[1] = None)
        /\ last.args[1] # None =>
              /\ ac.origin \notin {None, Some(<<None, None>>)}
              /\ ac.latitude # None /\ ac.longitude # None


----------------------------------------------------------------------------
(* SpecCodec: lines are parsed, serialized and parsed again.               *)

\* Wire lines over the texts of the field table: message types, present
\* and absent fields, texts that parsing normalises (padded callsign,
\* trailing zeros), a squawk with a leading zero, and texts it refuses.
CodecLines ==
    { << mt, tt, "1", "1", HexA, "1", "2017/03/25", "10:41:45.365",
         "2017/03/25", "10:41:45.384", cs, alt, "", "", lat, lon, "",
         sq, al, "", "", og >> :
        mt \in {"MSG", "STA"}, tt \in {"3", ""}, cs \in {"", "QFA1    "},
        alt \in {"", "2850", "high"}, lat \in {"", "-34.90000", "-34.9"},
        lon \in {"", "138.70000"}, sq \in {"", "0123"}, al \in {"", "0", "1"},
        og \in {"", "0"} }
    \cup {LShort, LPosA \o DELIMITER}

InitCodec ==
    /\ InitCommon
    /\ ac = DefaultAircraft
    /\ cfg = [raw_cb |-> "none", msg_cb |-> TRUE]
    /\ archiving_enabled = FALSE
    /\ handler = Handler0
    /\ disk = Disk0
    /\ links = <<>>
    /\ client = NoClient
    /\ session = NoSession

\* message.toString(message.fromString(line)), for a line that parses; one
\* line in each behaviour.
Roundtrip ==
    /\ last.op = "init"
    /\ \E line \in CodecLines :
         LET p == fromString(line) IN
         last' = [op |-> "roundtrip",
                  args |-> <<line, IF p.ok THEN toString(p.msg) ELSE <<>> >>]
    /\ UNCHANGED <<protoVars, clientVars, netVars, sessionVars, acVars, now,
                   lifeVars, archVars, envVars>>

NextCodec == Roundtrip

SpecCodec == InitCodec /\ [][NextCodec]_vars

\* C29: for every line L that parses, the text toString writes for the
\* parsed message parses again, to a message equal to that of L.
C29_ParseSerializeParse ==
    (last.op = "roundtrip" /\ fromString(last.args[1]).ok) =>
        /\ fromString(last.args[2]).ok
        /\ fromString(last.args[2]).msg = fromString(last.args[1]).msg

C29_Witness ==
    /\ last.op = "roundtrip"
    /\ fromString(last.args[1]).ok
    /\ last.args[1][11] = "QFA1    " /\ last.args[2][11] = "QFA1"
    /\ last.args[1][15] = "-34.90000" /\ last.args[2][15] = "-34.9"
    /\ last.args[2][18] = "0123"
    /\ last.args[2][19] = "1"
    /\ last.args[2][2] = ""

----------------------------------------------------------------------------
(* SpecEffect: a Session whose on_sbs_message is called with lines of every *)
(* transmission type for one aircraft, and one of another, while the clock  *)
(* advances.                                                                *)

\* MSG,4,...,7C79B7,...: airborne velocity
LVelA == WireLine("MSG", "4", HexA, "", "", "450", "90", "", "", "-64")
\* MSG,7,...,7C79B7,...: air-to-air, with an altitude
LAirA == WireLine("MSG", "7", HexA, "", "3100", "", "", "", "", "")
\* MSG,6,...,7C79B7,...: surveillance identity, a type that updates no field
LSquawkA == WireLine("MSG", "6", HexA, "", "3000", "", "", "", "", "")

EffectLines ==
    {LPosA, LIdentA, LVelA, LAltA, LAirA, LSquawkA, LAllCallB, LStaA}

SessionMessageEffect == SessionMessageOf(EffectLines)

NextEffect == SessionMessageEffect \/ Tick

SpecEffect == InitSession /\ [][NextEffect]_vars

\* The record a equals the record b in every field but those of fields.
SameBut(a, b, fields) ==
    \A f \in DOMAIN b \ fields : a[f] = b[f]

----------------------------------------------------------------------------
(* SpecMap: the aircraft map of an open Session under everything that can  *)
(* touch it: on_sbs_message with lines of both aircraft, the expiry sweep  *)
(* of the monitor task, start and stop of the recording, while the clock   *)
(* advances by minutes.  applied counts, per record of the map, the        *)
(* Transmission messages applied to it since it was created.               *)

MapLines == {LPosA, LSquawkA, LVelB, LStaA, LZero}

InitMap ==
    /\ InitCommon
    /\ ac = DefaultAircraft
    /\ cfg = [raw_cb |-> "session", msg_cb |-> FALSE]
    /\ archiving_enabled = FALSE
    /\ handler = Handler0
    /\ disk = Disk0
    /\ links = <<>>
    /\ client = StartedClient(FALSE)
    /\ \E minutes \in ThresholdMinutes :
         session = [OpenSession EXCEPT !.expiry_threshold = 60 * minutes]

\* Whether on_sbs_message applies the line to a record: it parses to a
\* Transmission message with a valid ICAO code.
Accepted(line) ==
    LET p == fromString(line) IN
    /\ p.ok
    /\ ~IsZeroIcao(p.msg)
    /\ MsgType(p.msg) = Transmission

\* The count after on_sbs_message was called with the line on the map.
CountApplied(count, map, line) ==
    IF Accepted(line)
    THEN LET hex == HexIdent(fromString(line).msg)
             before == IF hex \in DOMAIN map THEN count[hex] ELSE 0
         IN  (hex :> before + 1) @@ count
    ELSE count

MapMessage ==
    /\ SessionApplyOf(MapLines)
    /\ applied' = CountApplied(applied, aircraft, last'.args[1])

MapSweep ==
    /\ SweepTurn
    /\ applied' = [h \in DOMAIN aircraft' |-> applied[h]]

NextMap ==
    \/ MapMessage \/ MapSweep \/ TickMinute
    \/ SessionStartRecording \/ SessionStopRecording

SpecMap == InitMap /\ [][NextMap]_vars

\* Every accepted Transmission message, of any transmission type, increments
\* the msg_count of its aircraft by exactly 1 (from 0 for a new record) and
\* sets last_seen to the time of application.
EveryMessageCounts ==
    [][ (last'.op = "on_sbs_message" /\ Accepted(last'.args[1])) =>
          LET hex == HexIdent(fromString(last'.args[1]).msg) IN
          /\ hex \in DOMAIN aircraft'
          /\ aircraft'[hex].msg_count = LookupOrCreate(aircraft, hex).msg_count + 1
          /\ aircraft'[hex].last_seen = Some(now)
      ]_vars

\* The msg_count of a record that stays in the map never decreases.
CountNeverDecreases ==
    [][ \A h \in DOMAIN aircraft \cap DOMAIN aircraft' :
          aircraft'[h].msg_count >= aircraft[h].msg_count ]_vars

\* The msg_count of every record of the map equals the number of
\* Transmission messages applied to it since it was created.
CountIsTheMessagesApplied ==
    /\ DOMAIN applied = DOMAIN aircraft
    /\ \A h \in DOMAIN aircraft : aircraft[h].msg_count = applied[h]

\* C32: every accepted Transmission message, of any transmission type
\* including the types that update no field, increments the aircraft's
\* msg_count by exactly 1 and sets last_seen to the time of application; the
\* msg_count of a record that stays in the map never decreases and equals
\* the number of Transmission messages applied to it since it was created.
C32_MsgCountCountsEveryMessage ==
    /\ EveryMessageCounts
    /\ CountNeverDecreases
    /\ []CountIsTheMessagesApplied

\* C32 witness: while recording, the position line of 7C79B7 was applied,
\* its record expired and was swept, and the line was applied again, followed
\* by a surveillance-identity line, which updates no field: the record counts
\* the two messages since its second creation.
C32_Witness ==
    /\ last = [op |-> "on_sbs_message", args |-> <<LSquawkA>>]
    /\ s_archived = <<LPosA, LPosA, LSquawkA>>
    /\ aircraft[HexA].msg_count = 2
    /\ aircraft[HexA].last_seen = Some(now)
    /\ aircraft[HexA].altitude = Some(2850)

----------------------------------------------------------------------------
(* SpecConnect: an open Session whose connect(), disconnect() and close()  *)
(* are called in any order, each connect() building a Client of its own    *)
(* (session.py:110-113).  A connected Client feeds the lines it receives   *)
(* to Session.on_sbs_message; the monitor task sweeps, the recording is    *)
(* started and stopped, the clock advances by minutes.  A Client's         *)
(* connection is                                                           *)
(*   connecting  create_connection is awaited                              *)
(*   connected   connection_made was called                                *)
(*   refused     create_connection raised; the protocol has no transport   *)
(*   closing     the transport was aborted, connection_lost is pending     *)
(*   lost        connection_lost was called                                *)
(*   stopped     Client.disconnect has set self.protocol to None           *)

MaxClients == 2     \* calls of Session.connect (SpecConnect)
MaxFed == 1         \* Transmission messages counted in the map at a time (SpecConnect)

ConnectLines == {LPosA, LStaA}

InitConnect ==
    /\ InitCommon
    /\ ac = DefaultAircraft
    /\ cfg = [raw_cb |-> "session", msg_cb |-> FALSE]
    /\ archiving_enabled = FALSE
    /\ handler = Handler0
    /\ disk = Disk0
    /\ links = <<>>
    /\ client = NoClient
    /\ \E minutes \in ThresholdMinutes :
         session = [OpenSession EXCEPT !.expiry_threshold = 60 * minutes,
                                       !.client = FALSE]

UnchangedByConnect ==
    UNCHANGED <<protoVars, clientVars, netVars, acVars, now, client, opened,
                archVars, disk_ok, serverVars, running>>

\* Session.connect up to the await of client.start(): self.client is the new
\* Client, whatever it was.
ConnectCall ==
    /\ session.obj = "built"
    /\ call = "none"
    /\ Len(clients) < MaxClients
    /\ clients' = Append(clients, "connecting")
    /\ attached' = Len(clients) + 1
    /\ call' = "connect"
    /\ session' = [session EXCEPT !.client = TRUE]
    /\ outcome' = "pending"
    /\ last' = [op |-> "connect", args |-> <<>>]
    /\ UNCHANGED <<sessionVars, cache_file, ghostVars>>
    /\ UnchangedByConnect

\* create_connection of Client i succeeds: connection_made, and the
\* connect() that awaits it returns.
ClientConnected ==
    \E i \in DOMAIN clients :
      /\ clients[i] = "connecting"
      /\ clients' = [clients EXCEPT ![i] = "connected"]
      /\ call' = "none"
      /\ outcome' = "ok"
      /\ last' = [op |-> "connection_made", args |-> <<i>>]
      /\ UNCHANGED <<sessionVars, session, attached, cache_file, ghostVars>>
      /\ UnchangedByConnect

\* create_connection of Client i raises: the exception leaves connect(),
\* self.client stays the Client that failed.
ClientRefused ==
    \E i \in DOMAIN clients :
      /\ clients[i] = "connecting"
      /\ clients' = [clients EXCEPT ![i] = "refused"]
      /\ call' = "none"
      /\ outcome' = "raised"
      /\ last' = [op |-> "connection_refused", args |-> <<i>>]
      /\ UNCHANGED <<sessionVars, session, attached, cache_file, ghostVars>>
      /\ UnchangedByConnect

\* data_received of the protocol of Client i with one line: the Client's raw
\* callback is the Session's on_sbs_message.
Feed ==
    /\ \E i \in DOMAIN clients, line \in ConnectLines :
         LET w == SessionOnSbsMessage(World, line) IN
         /\ clients[i] = "connected"
         /\ Accepted(line) => TotalMsgCount < MaxFed
         /\ aircraft' = w.aircraft
         /\ s_archived' = w.s_archived
         /\ applied' = CountApplied(applied, aircraft, line)
         /\ last' = [op |-> "on_sbs_message", args |-> <<line, i>>]
    /\ UNCHANGED <<s_archiving, session, cache_file, outcome, connVars>>
    /\ UnchangedByConnect

\* The peer of Client i closes the connection: connection_lost.
PeerCloses ==
    \E i \in DOMAIN clients :
      /\ clients[i] = "connected"
      /\ clients' = [clients EXCEPT ![i] = "lost"]
      /\ last' = [op |-> "connection_lost", args |-> <<i>>]
      /\ UNCHANGED <<sessionVars, session, attached, call, cache_file, outcome, ghostVars>>
      /\ UnchangedByConnect

\* The transport of Client i was aborted: connection_lost.
AbortDone ==
    \E i \in DOMAIN clients :
      /\ clients[i] = "closing"
      /\ clients' = [clients EXCEPT ![i] = "lost"]
      /\ last' = [op |-> "connection_lost", args |-> <<i>>]
      /\ UNCHANGED <<sessionVars, session, attached, call, cache_file, outcome, ghostVars>>
      /\ UnchangedByConnect

\* Whether Session.disconnect has to wait: self.client has a protocol whose
\* wait_closed is not done.
Suspends == attached # 0 /\ clients[attached] # "lost"

\* Session.disconnect from protocol.close() on: the transport of a
\* connected Client is aborted; a Client whose connection was lost has its
\* protocol set to None and self.client becomes None.
Disconnected(cs, c) ==
    IF c = 0 THEN cs
    ELSE [cs EXCEPT ![c] = CASE @ = "connected" -> "closing"
                            [] @ = "lost" -> "stopped"
                            [] OTHER -> @]

\* The rest of Session.close after disconnect(): stop_recording, the dump of
\* the map into the cache file, the cancellation of the monitor task.
CloseTail ==
    /\ s_archiving' = FALSE
    /\ cache_file' = IF session.cache_enabled THEN Some(aircraft) ELSE cache_file
    /\ session' = [session EXCEPT !.client = FALSE, !.logfile = None,
                                  !.monitor = "cancelled", !.obj = "closed"]

\* Session.disconnect() up to its await, or to its end when it has nothing
\* to wait for.
DisconnectCall ==
    /\ session.obj = "built"
    /\ call = "none"
    /\ clients' = Disconnected(clients, attached)
    /\ attached' = IF Suspends THEN attached ELSE 0
    /\ call' = IF Suspends THEN "disconnect" ELSE "none"
    /\ session' = [session EXCEPT !.client = Suspends]
    /\ outcome' = IF Suspends THEN "pending" ELSE "ok"
    /\ last' = [op |-> "disconnect", args |-> <<>>]
    /\ UNCHANGED <<sessionVars, cache_file, ghostVars>>
    /\ UnchangedByConnect

\* Session.close() up to the await in disconnect(), or to its end when
\* disconnect() has nothing to wait for.
CloseCall ==
    /\ session.obj = "built"
    /\ call = "none"
    /\ clients' = Disconnected(clients, attached)
    /\ attached' = IF Suspends THEN attached ELSE 0
    /\ call' = IF Suspends THEN "close" ELSE "none"
    /\ IF Suspends
       THEN UNCHANGED <<s_archiving, cache_file, session>>
       ELSE CloseTail
    /\ outcome' = IF Suspends THEN "pending" ELSE "ok"
    /\ last' = [op |-> "close", args |-> <<>>]
    /\ UNCHANGED <<aircraft, s_archived, ghostVars>>
    /\ UnchangedByConnect

\* wait_closed of self.client is done: disconnect() sets the Client's
\* protocol and self.client to None and returns; close() goes on to its end.
Resumed ==
    /\ call \in {"disconnect", "close"}
    /\ clients[attached] = "lost"
    /\ clients' = Disconnected(clients, attached)
    /\ attached' = 0
    /\ call' = "none"
    /\ IF call = "close"
       THEN CloseTail
       ELSE /\ session' = [session EXCEPT !.client = FALSE]
            /\ UNCHANGED <<s_archiving, cache_file>>
    /\ outcome' = "ok"
    /\ last' = [op |-> call, args |-> <<"returned">>]
    /\ UNCHANGED <<aircraft, s_archived, ghostVars>>
    /\ UnchangedByConnect

NextConnect ==
    \/ ConnectCall \/ ClientConnected \/ ClientRefused \/ Feed \/ PeerCloses
    \/ AbortDone \/ DisconnectCall \/ CloseCall \/ Resumed
    \/ MapSweep \/ TickMinute \/ SessionStartRecording \/ SessionStopRecording

SpecConnect == InitConnect /\ [][NextConnect]_vars

\* The records that are in the map after the step and were not, or were
\* different, before it.
EnteredOrChanged ==
    { h \in DOMAIN aircraft' : h \notin DOMAIN aircraft \/ aircraft'[h] # aircraft[h] }

\* C33: entries leave the aircraft map only through the expiry sweep, and
\* enter or change only through on_sbs_message applying a Transmission
\* message: a non-Transmission message, connect, disconnect, close, the
\* events of the connections and start/stop recording leave the map and
\* every record in it unchanged.
C33_OnlySweepAndApplyWriteTheMap ==
    [][ /\ DOMAIN aircraft \ DOMAIN aircraft' # {}
          => last'.op = "discard_lost_aircraft"
        /\ EnteredOrChanged # {}
          => /\ last'.op = "on_sbs_message"
             /\ Accepted(last'.args[1])
             /\ EnteredOrChanged = {HexIdent(fromString(last'.args[1]).msg)}
        /\ \/ last'.op \in {"connect", "disconnect", "close", "start_recording",
                            "stop_recording", "connection_made",
                            "connection_refused", "connection_lost", "tick"}
           \/ last'.op = "on_sbs_message" /\ ~Accepted(last'.args[1])
          => aircraft' = aircraft
      ]_vars

\* C33 witness: with 7C79B7 in the map, the recording was on, the Session
\* was disconnected and connected again, and a status line (STA) arrived on
\* the new connection: the record is as the one message left it.
C33_Witness ==
    /\ last = [op |-> "on_sbs_message", args |-> <<LStaA, 2>>]
    /\ clients = <<"stopped", "connected">>
    /\ s_archiving
    /\ HexA \in DOMAIN aircraft
    /\ aircraft[HexA].msg_count = 1
    /\ aircraft[HexA].last_seen = Some(0)
    /\ now = 60

----------------------------------------------------------------------------
(* SpecSteps: the event loop of an open Session.  The loop runs one        *)
(* callback or task step at a time and takes the next one when the running *)
(* one returns or awaits.  data_received calls on_sbs_message, whose       *)
(* statements are taken one group at a time:                               *)
(*   created   the record was looked up, or created and put into the map   *)
(*             (session.py:227-233)                                        *)
(*   stamped   last_seen and msg_count were assigned (session.py:235-236)  *)
(* and then the fields are updated and the call returns (238-267).  The    *)
(* monitor task's turn is discard_lost_aircraft, up to its sleep.          *)

StepLines == {LPosA, LVelB, LStaA}

\* Mutant of Yields: on_sbs_message awaits after it has put the record into
\* the map.
Yields_AfterCreate(stage) == stage = "created"

\* Whether on_sbs_message gives the event loop back at the end of a stage:
\* it is a plain function, with no await in it.
Yields(stage) == FALSE

\* Whether the event loop can take another callback or task step.
LoopFree == running = None \/ Yields(running[1].stage)

UnchangedBySteps ==
    UNCHANGED <<protoVars, clientVars, netVars, acVars, s_archiving, lifeVars,
                archVars, disk_ok, serverVars, connVars, ghostVars>>

\* on_sbs_message up to the record being in the map; a line that is not
\* applied is done with in this step.
ApplyBegin ==
    /\ LoopFree
    /\ running = None
    /\ TotalMsgCount < MaxApplied
    /\ \E line \in StepLines :
         IF Accepted(line)
         THEN LET hex == HexIdent(fromString(line).msg) IN
              /\ aircraft' = (hex :> LookupOrCreate(aircraft, hex)) @@ aircraft
              /\ s_archived' = IF s_archiving THEN Append(s_archived, line) ELSE s_archived
              /\ running' = Some([line |-> line, hex |-> hex, stage |-> "created", t |-> now])
              /\ last' = [op |-> "apply", args |-> <<line, "created">>]
         ELSE /\ UNCHANGED <<aircraft, s_archived, running>>
              /\ last' = [op |-> "on_sbs_message", args |-> <<line>>]
    /\ UNCHANGED now
    /\ UnchangedBySteps

\* ac.last_seen = now; ac.msg_count += 1
ApplyStamp ==
    /\ running # None
    /\ running[1].stage = "created"
    /\ LET r == running[1] IN
       /\ aircraft' = [aircraft EXCEPT ![r.hex] =
                          [@ EXCEPT !.last_seen = Some(r.t), !.msg_count = @ + 1]]
       /\ running' = Some([r EXCEPT !.stage = "stamped"])
       /\ last' = [op |-> "apply", args |-> <<r.line, "stamped">>]
    /\ UNCHANGED <<now, s_archived>>
    /\ UnchangedBySteps

\* The update of the fields by transmission type, and the return.
ApplyFields ==
    /\ running # None
    /\ running[1].stage = "stamped"
    /\ LET r == running[1] IN
       /\ aircraft' = [aircraft EXCEPT ![r.hex] =
                          ApplyTransmission(@, fromString(r.line).msg, r.t)]
       /\ running' = None
       /\ last' = [op |-> "on_sbs_message", args |-> <<r.line>>]
    /\ UNCHANGED <<now, s_archived>>
    /\ UnchangedBySteps

\* One turn of manage_session.  now - last_seen raises TypeError for a
\* record whose last_seen is None, before anything is deleted.
StepSweep ==
    /\ LoopFree
    /\ session.monitor = "running"
    /\ IF \E h \in DOMAIN aircraft : aircraft[h].last_seen = None
       THEN /\ aircraft' = aircraft
            /\ last' = [op |-> "sweep_raised", args |-> <<>>]
       ELSE /\ aircraft' = DiscardLostAircraft(aircraft, now, session.expiry_threshold)
            /\ last' = [op |-> "discard_lost_aircraft",
                        args |-> <<DOMAIN aircraft \ DOMAIN aircraft'>>]
    /\ UNCHANGED <<now, s_archived, running>>
    /\ UnchangedBySteps

NextSteps == ApplyBegin \/ ApplyStamp \/ ApplyFields \/ StepSweep \/ TickMinute

SpecSteps == InitMap /\ [][NextSteps]_vars

\* C34: message application and the expiry sweep never interleave inside one
\* update: a turn of the sweep is never taken while a call of on_sbs_message
\* is between two of its stages, so it never meets a record without
\* last_seen nor one counted and not yet updated, and the record a call
\* works on is in the map as long as the call runs.
C34_ApplyAndSweepDoNotInterleave ==
    /\ [][ last'.op \in {"discard_lost_aircraft", "sweep_raised"}
             => /\ running = None
                /\ \A h \in DOMAIN aircraft : aircraft[h].last_seen # None
                /\ last'.op = "discard_lost_aircraft" ]_vars
    /\ [](running # None => running[1].hex \in DOMAIN aircraft)

\* C34 witness: on_sbs_message has just put the new record of A1B2C3 into
\* the map, its last_seen still None, while the record of 7C79B7 is older
\* than the threshold and the monitor task is running.
C34_Witness ==
    /\ running # None
    /\ running[1].stage = "created"
    /\ running[1].hex = HexB
    /\ aircraft[HexB].last_seen = None
    /\ HexA \in DOMAIN aircraft
    /\ Age(aircraft[HexA]) > session.expiry_threshold
    /\ session.monitor = "running"

----------------------------------------------------------------------------
(* Claims about the connections of a Session (SpecConnect). *)

\* The Clients whose connection delivers lines to on_sbs_message.
Feeding == { i \in DOMAIN clients : clients[i] = "connected" }

\* C35: a Session has at most one active client connection at any time:
\* after any sequence of connect() and disconnect() calls, connect() while
\* connected included, no more than one connection feeds lines into the map.
C35_AtMostOneConnectionFeeds == Cardinality(Feeding) <= 1

----------------------------------------------------------------------------
(* SpecClient: the life of a stand-alone Client, with the event loop       *)
(* calling connection_lost once the transport is aborted or the peer has   *)
(* closed, and resuming stop() once wait_closed is done, while the clock   *)
(* advances.                                                               *)

NextClient ==
    \/ NewClient \/ ClientStart \/ ConnectionMade \/ ConnectionRefused
    \/ ConnectionLost \/ ClientStop \/ StopDone \/ TickMinute

SpecClient ==
    /\ InitLifecycle
    /\ [][NextClient]_vars
    /\ WF_vars(ConnectionLost)
    /\ WF_vars(StopDone)

\* C37: Client.stop() eventually returns from every reachable client state:
\* never started, connected, connection already closed by the peer, and
\* after a start() whose connection attempt failed.
C37_StopReturns ==
    (last.op = "stop") ~> (client.pc = "idle" /\ outcome # "pending")

\* stop() returns when it is called on a Client whose protocol, if it has
\* one, has a transport: never started, connected, or closed by the peer.
StopReturnsWithTransport ==
    (last.op = "stop" /\ pconn # "created") ~> (client.pc = "idle" /\ outcome # "pending")

----------------------------------------------------------------------------
(* Claims about Session.close (SpecConnect). *)

\* The snapshot close() writes is the map at the moment close() returns.
SnapshotIsTheMapAtReturn ==
    [][ (session'.obj = "closed" /\ session.obj = "built" /\ session.cache_enabled)
          => cache_file' = Some(aircraft') ]_vars

\* After close() has returned with caching enabled the map does not change.
QuietAfterClose ==
    [][ (session.obj = "closed" /\ session.cache_enabled) => aircraft' = aircraft ]_vars

\* After close() has returned, the map does not change as long as no Client
\* other than the one the Session referred to was built.
QuietWithOneClient ==
    [][ (session.obj = "closed" /\ Len(clients) <= 1) => aircraft' = aircraft ]_vars

\* C38: after Session.close() has returned with caching enabled, the
\* aircraft map is not modified again by the session's own tasks (its
\* clients and its sweep), and the persisted snapshot equals the map at the
\* moment of the return: nothing is swept or applied between the write of
\* the snapshot and the return of close().
C38_ClosedSessionIsQuiet == SnapshotIsTheMapAtReturn /\ QuietAfterClose

----------------------------------------------------------------------------
(* SpecExpiry: the map of an open Session under on_sbs_message, the sweep  *)
(* and the clock, where the monitor task gets its turns (it sleeps for     *)
(* cache_monitor_interval and sweeps again, session.py:316-318) and the    *)
(* clock advances up to the horizon of the model.                          *)

NextExpiry == MapMessage \/ MapSweep \/ TickMinute

SpecExpiry ==
    /\ InitMap
    /\ [][NextExpiry]_vars
    /\ WF_vars(MapSweep)
    /\ WF_vars(TickMinute)

\* The times of the clock.
Minutes == { 60 * k : k \in 0..MaxMinutes }

\* The record of h is in the map as its message number n, applied at time
\* t, left it.
Idle(h, t, n) ==
    /\ h \in DOMAIN aircraft
    /\ aircraft[h].last_seen = Some(t)
    /\ aircraft[h].msg_count = n

\* C36: while the Session is open, an aircraft that receives no further
\* message is eventually removed from the map by the sweep, the monitor task
\* getting its turns and the clock advancing (beyond the record's expiry):
\* a record does not stay for ever as its last message left it.
C36_IdleAircraftIsSwept ==
    \A h \in {HexA, HexB} : \A t \in Minutes : \A n \in 1..MaxApplied :
      (Idle(h, t, n) /\ t + session.expiry_threshold < 60 * MaxMinutes)
        ~> ~Idle(h, t, n)

\* C36 witness: the clock has passed the threshold and a sweep has removed
\* 7C79B7, which had received nothing since, and kept A1B2C3.
C36_Witness ==
    /\ last = [op |-> "discard_lost_aircraft", args |-> <<{HexA}>>]
    /\ HexA \notin DOMAIN aircraft
    /\ HexB \in DOMAIN aircraft
    /\ now > session.expiry_threshold

----------------------------------------------------------------------------
(* Claims about the order of the history (SpecAircraft). *)

\* The timestamps of a history do not decrease from oldest to newest.
Ordered(history) ==
    \A i \in 1..(Len(history) - 1) : history[i][1] <= history[i + 1][1]

\* C39: after any sequence of update_position calls, with timestamps in any
\* order and interval gating enabled or disabled, the history holds no
\* out-of-order sample: its timestamps are non-decreasing from oldest to
\* newest.
C39_HistoryIsOrdered == Ordered(ac.history)

\* With interval gating enabled the history is ordered.
GatedHistoryIsOrdered == ac.history_interval # None => Ordered(ac.history)

----------------------------------------------------------------------------
(* Claims about the size of the record file (SpecArchive). *)

\* The length of the longest record, with its timestamp prefix and its
\* terminator.
LongestWritten == WrittenLen([timestamp |-> 0, msg |-> LPosA])

\* C40: with maxBytes > 0 and every record, its timestamp prefix and its
\* terminator included, shorter than maxBytes, the size of the current
\* archive file does not exceed maxBytes after any emit.
C40_FileWithinMaxBytes ==
    (/\ handler # None
     /\ handler[1].maxBytes > LongestWritten
     /\ disk[0] # None)
    => Tell(disk[0][1]) <= handler[1].maxBytes

\* The current file never holds more than maxBytes and the timestamp prefix
\* of one record when backups are kept.
FileWithinMaxBytesAndPrefix ==
    (/\ handler # None
     /\ handler[1].maxBytes > LongestWritten
     /\ handler[1].backupCount > 0
     /\ disk[0] # None)
    => Tell(disk[0][1]) < handler[1].maxBytes + TimestampLen + 1

============================================================================
